---- MODULE Spec2Model ----
(***************************************************************************)
(* Blur rendering subsystem of niri: the per-output EffectsFramebuffers    *)
(* (render_helpers/blur.rs) and the cached BlurRenderElement               *)
(* (render_helpers/blur/element.rs); with it the drag-and-drop grab        *)
(* (handlers/dnd_fix.rs), the title texture of a tab                       *)
(* (layout/tab_indicator.rs), the KDE blur protocol (protocols/kde_blur.rs) *)
(* and the scrolling view of the layout tests.                             *)
(*                                                                         *)
(* Time is counted in milliseconds, and an Instant is kept as its distance *)
(* from the present: Instant::now() is 0, a deadline d > 0 lies d ms       *)
(* ahead, and every Instant that has passed is kept as -1, since the code  *)
(* only ever compares an Instant with now or with now + interval.          *)
(* Every handler runs to completion on                                     *)
(* the single render thread, so each is one atomic action.  A fallible GPU *)
(* call is an input of the action: the place (if any) where it fails.      *)
(* The pixels of a texture are not stored; what a call does to them is the *)
(* sequence of GPU commands it issues, kept in the record of the call.     *)
(***************************************************************************)
EXTENDS Integers, Sequences, FiniteSets, TLC

VARIABLES
    fx,         \* Option<EffectsFramebuffers>: the output's user data
    blur,       \* the Blur of one surface (element.rs)
    nextId,     \* next unused element Id (Id::new())
    panicked,   \* an unwrap, expect or assert has aborted the process
    last,       \* record of the last call: its arguments and outcome
    grab,       \* the WorkaroundDndGrab of the seat's pointer (dnd_fix.rs)
    layout,     \* the scrolling layout of one workspace (layout tests)
    title_texture,  \* the TitleTexture of one tab (tab_indicator.rs)
    kde_blur    \* the org_kde_kwin_blur objects of a client (kde_blur.rs)

vars ==
    <<fx, blur, nextId, panicked, last, grab, layout, title_texture, kde_blur>>

(* The state of the blur subsystem, the state outside it, and the state    *)
(* outside each of the other parts                                         *)
blurVars == <<fx, blur, nextId, panicked>>
otherVars == <<grab, layout, title_texture, kde_blur>>
exceptGrab == <<blurVars, layout, title_texture, kde_blur>>
exceptLayout == <<blurVars, grab, title_texture, kde_blur>>
exceptTitleTexture == <<blurVars, grab, layout, kde_blur>>
exceptKdeBlur == <<blurVars, grab, layout, title_texture>>

----------------------------------------------------------------------------
(* Bounds of the model *)

MaxPasses == 2
MaxGeneration == 2
MaxCommit == 2
MaxId == 2

(* Program constants *)

DEFAULT_BLUR_RERENDER_INTERVAL == 150

----------------------------------------------------------------------------
(* Option<T> as a sequence of length 0 or 1 *)

None == <<>>
Some(x) == <<x>>
IsSome(o) == o # <<>>
IsNone(o) == o = <<>>
Unwrap(o) == o[1]

----------------------------------------------------------------------------
(* Inputs *)

Transforms ==
    {"Normal", "_90", "_180", "_270",
     "Flipped", "Flipped90", "Flipped180", "Flipped270"}

(* Output mode sizes the environment may report *)
ModeSizes == {[w |-> 1920, h |-> 1080], [w |-> 1280, h |-> 720]}

(* rerender_fps arguments: absent, filtered out (<= 0), 10 fps, 20 fps *)
FpsChoices == {None, Some(0), Some(10), Some(20)}

(* Amounts of time that pass between two calls *)
TickSteps == {50}

(* niri_config::Blur, the fields this code reads *)
Config(on, passes, radius) ==
    [on |-> on, passes |-> passes, radius |-> radius, noise |-> 1,
     ignore_alpha |-> 1]

(* Blur on, switched off, without passes, without radius *)
Configs ==
    {Config(TRUE, MaxPasses, 5), Config(FALSE, MaxPasses, 5),
     Config(TRUE, 0, 5), Config(TRUE, MaxPasses, 0)}

(* Transform::transform_size: the 90 and 270 degree transforms swap axes *)
transform_size(t, s) ==
    IF t \in {"_90", "_270", "Flipped90", "Flipped270"}
    THEN [w |-> s.h, h |-> s.w]
    ELSE s

(* Duration::from_secs_f32(1. / fps), in whole milliseconds *)
IntervalOf(fps) == 1000 \div fps

----------------------------------------------------------------------------
(* Textures: a handle, the GL name and the size *)

Tex(id, size) == [id |-> id, w |-> size.w, h |-> size.h]

(* GL names of the textures some handle keeps alive *)
FxTex(f) == {f.optimized_blur.id, f.effects.id, f.effects_swapped.id}

BlurTex(b) ==
    (IF IsSome(b.alpha_tex) THEN {Unwrap(b.alpha_tex).id} ELSE {})
    \cup (IF IsSome(b.inner)
          THEN {Unwrap(b.inner).variant.texture.id}
               \cup (IF IsSome(Unwrap(b.inner).alpha_tex)
                     THEN {Unwrap(Unwrap(b.inner).alpha_tex).id} ELSE {})
          ELSE {})

LiveTex == (IF IsSome(fx) THEN FxTex(Unwrap(fx)) ELSE {}) \cup BlurTex(blur)

(* create_buffer: GenTextures returns a name no live texture has.  Which   *)
(* one is immaterial (names are only compared for equality).  A single     *)
(* texture gets the first unused multiple of 4, the three buffers of an    *)
(* output the first unused run i, i+1, i+2 with i = 1 mod 4, so that       *)
(* freeing and allocating in another order does not lead to states that    *)
(* differ in nothing but the names.                                        *)
RECURSIVE FreshName(_, _)
FreshName(live, i) ==
    IF i \in live THEN FreshName(live, i + 4) ELSE i

RECURSIVE FreshRun(_, _)
FreshRun(live, i) ==
    IF {i, i + 1, i + 2} \cap live # {} THEN FreshRun(live, i + 4) ELSE i

(* CurrentBuffer::swap *)
swap(cb) == IF cb = "Normal" THEN "Swapped" ELSE "Normal"

(* EffectsFramebuffers::buffers: (sample, render) *)
buffers(f) ==
    IF f.current_buffer = "Normal"
    THEN <<f.effects, f.effects_swapped>>
    ELSE <<f.effects_swapped, f.effects>>

(* get_rerender_at that ignores the fps it is given *)
get_rerender_at_default(fps) ==
    Some(0 + DEFAULT_BLUR_RERENDER_INTERVAL)

(* get_rerender_at that schedules nothing *)
get_rerender_at_none(fps) ==
    None

(* get_rerender_at(fps): Some(Instant::now() + interval) *)
get_rerender_at(fps) ==
    LET interval == IF IsSome(fps) /\ Unwrap(fps) > 0
                    THEN IntervalOf(Unwrap(fps))
                    ELSE DEFAULT_BLUR_RERENDER_INTERVAL
    IN  Some(0 + interval)

(* NewFramebuffers whose working textures have the size of the mode, not   *)
(* the transformed one                                                     *)
NewFramebuffersModeSize(transform, mode, live) ==
    LET texture_size == transform_size(transform, mode)
        name == FreshRun(live, 1)
    IN
    [ optimized_blur             |-> Tex(name, texture_size),
      optimized_blur_rerender_at |-> get_rerender_at(None),
      optimized_blur_generation  |-> 0,
      effects                    |-> Tex(name + 1, mode),
      effects_swapped            |-> Tex(name + 2, mode),
      current_buffer             |-> "Normal",
      output_size                |-> texture_size,
      transform                  |-> transform ]

(* The struct literal of init_for_output and update_for_output; its three  *)
(* textures are created while those in live still exist                    *)
NewFramebuffers(transform, mode, live) ==
    LET texture_size == transform_size(transform, mode)
        name == FreshRun(live, 1)
    IN
    [ optimized_blur             |-> Tex(name, texture_size),
      optimized_blur_rerender_at |-> get_rerender_at(None),
      optimized_blur_generation  |-> 0,
      effects                    |-> Tex(name + 1, texture_size),
      effects_swapped            |-> Tex(name + 2, texture_size),
      current_buffer             |-> "Normal",
      output_size                |-> texture_size,
      transform                  |-> transform ]

(* The record of the last call.  fresh: the call has just returned (no     *)
(* time has passed since)                                                  *)
NoCall == [op |-> "none", fresh |-> FALSE]

----------------------------------------------------------------------------
(* Wall-clock time passes: d ms later every Instant is d ms nearer or has  *)
(* passed, and the last update call is d ms further back (the record       *)
(* stops counting above the longest interval).  The clock is no call: the  *)
(* record of the last call stays.                                          *)
Later(instant, d) ==
    IF IsNone(instant) THEN None
    ELSE IF Unwrap(instant) - d < 0 THEN Some(-1)
    ELSE Some(Unwrap(instant) - d)

Tick(d) ==
    /\ ~panicked
    /\ fx' = IF IsNone(fx) THEN fx
             ELSE Some([Unwrap(fx) EXCEPT !.optimized_blur_rerender_at =
                                             Later(@, d)])
    /\ blur' = IF IsSome(blur.inner) /\ Unwrap(blur.inner).variant.kind = "True"
               THEN [blur EXCEPT !.inner = Some([Unwrap(blur.inner) EXCEPT
                        !.variant.rerender_at = Later(@, d)])]
               ELSE blur
    /\ last' = IF last.op = "update_optimized_blur_buffer"
               THEN [last EXCEPT !.fresh = FALSE, !.ago =
                        IF @ + d > DEFAULT_BLUR_RERENDER_INTERVAL
                        THEN DEFAULT_BLUR_RERENDER_INTERVAL + 1 ELSE @ + d]
               ELSE [last EXCEPT !.fresh = FALSE]
    /\ UNCHANGED <<nextId, panicked, otherVars>>

(* The record of an init_for_output or update_for_output call: the        *)
(* transform and the mode of the output, which create_buffer failed (0:    *)
(* none) and how the call ended                                            *)
OutputCall(op, transform, mode, allocFail, result) ==
    [op |-> op, transform |-> transform, mode |-> mode,
     allocFail |-> allocFail, result |-> result, fresh |-> TRUE]

(* EffectsFramebuffers::init_for_output.  allocFail = 0: no create_buffer  *)
(* fails; k in 1..3: the k-th one fails and its unwrap panics.  A second   *)
(* call fails the assert.                                                  *)
init_for_output(transform, mode, allocFail) ==
    /\ ~panicked
    /\ IF allocFail # 0 \/ IsSome(fx)
       THEN /\ panicked' = TRUE
            /\ last' = OutputCall("init_for_output", transform, mode,
                                  allocFail, "panic")
            /\ UNCHANGED <<fx, blur, nextId, otherVars>>
       ELSE /\ fx' = Some(NewFramebuffers(transform, mode, LiveTex))
            /\ last' = OutputCall("init_for_output", transform, mode,
                                  allocFail, "ok")
            /\ UNCHANGED <<blur, nextId, panicked, otherVars>>

(* update_for_output whose create_buffer calls are unwrapped as in         *)
(* init_for_output                                                         *)
update_for_output_unwrap(transform, mode, allocFail) ==
    /\ ~panicked
    /\ IF IsNone(fx)
       THEN /\ last' = OutputCall("update_for_output", transform, mode,
                                  0, "ok")
            /\ UNCHANGED <<fx, blur, nextId, panicked, otherVars>>
       ELSE IF allocFail # 0
       THEN /\ panicked' = TRUE
            /\ last' = OutputCall("update_for_output", transform, mode,
                                  allocFail, "panic")
            /\ UNCHANGED <<fx, blur, nextId, otherVars>>
       ELSE /\ fx' = Some(NewFramebuffers(transform, mode, LiveTex))
            /\ last' = OutputCall("update_for_output", transform, mode,
                                  allocFail, "ok")
            /\ UNCHANGED <<blur, nextId, panicked, otherVars>>

(* EffectsFramebuffers::update_for_output.  allocFail = k in 1..3: the     *)
(* k-th create_buffer fails and `?` returns the error before the           *)
(* assignment to *fx_buffers.  On an output without buffers the call       *)
(* returns Ok before any create_buffer.                                    *)
update_for_output(transform, mode, allocFail) ==
    /\ ~panicked
    /\ IF IsNone(fx)
       THEN /\ last' = OutputCall("update_for_output", transform, mode,
                                  0, "ok")
            /\ UNCHANGED <<fx, blur, nextId, panicked, otherVars>>
       ELSE IF allocFail # 0
       THEN /\ last' = OutputCall("update_for_output", transform, mode,
                                  allocFail, "err")
            /\ UNCHANGED <<fx, blur, nextId, panicked, otherVars>>
       ELSE /\ fx' = Some(NewFramebuffers(transform, mode, LiveTex))
            /\ last' = OutputCall("update_for_output", transform, mode,
                                  allocFail, "ok")
            /\ UNCHANGED <<blur, nextId, panicked, otherVars>>

(* The record of a set_dirty call: whether the output had buffers and     *)
(* what their deadline was when the call was made                          *)
SetDirtyCall(o) ==
    [op |-> "set_dirty", some |-> IsSome(o),
     at |-> IF IsSome(o) THEN Unwrap(o).optimized_blur_rerender_at ELSE None,
     fresh |-> TRUE]

(* set_dirty that also replaces a deadline that has passed *)
set_dirty_elapsed ==
    /\ ~panicked
    /\ IF IsNone(fx)
       THEN fx' = fx
       ELSE IF \/ IsNone(Unwrap(fx).optimized_blur_rerender_at)
               \/ Unwrap(Unwrap(fx).optimized_blur_rerender_at) <= 0
       THEN fx' = Some([Unwrap(fx) EXCEPT
                    !.optimized_blur_rerender_at = get_rerender_at(None)])
       ELSE fx' = fx
    /\ last' = SetDirtyCall(fx)
    /\ UNCHANGED <<blur, nextId, panicked, otherVars>>

(* set_dirty without the is_none() of line 112 *)
set_dirty_always ==
    /\ ~panicked
    /\ IF IsNone(fx)
       THEN fx' = fx
       ELSE fx' = Some([Unwrap(fx) EXCEPT
                    !.optimized_blur_rerender_at = get_rerender_at(None)])
    /\ last' = SetDirtyCall(fx)
    /\ UNCHANGED <<blur, nextId, panicked, otherVars>>

(* EffectsFramebuffers::set_dirty *)
set_dirty ==
    /\ ~panicked
    /\ IF IsNone(fx)
       THEN fx' = fx
       ELSE IF IsNone(Unwrap(fx).optimized_blur_rerender_at)
       THEN fx' = Some([Unwrap(fx) EXCEPT
                    !.optimized_blur_rerender_at = get_rerender_at(None)])
       ELSE fx' = fx
    /\ last' = SetDirtyCall(fx)
    /\ UNCHANGED <<blur, nextId, panicked, otherVars>>

----------------------------------------------------------------------------
(* update_optimized_blur_buffer *)

(* A run of a handler: the buffers, the GPU commands issued so far and     *)
(* whether it is still running or how it ended                             *)
Run(f) == [f |-> f, log |-> <<>>, result |-> "run"]

(* A GPU command: a scene render or a blit into a texture, a blur pass     *)
(* from sample to render with a shader; and the swap of the roles          *)
Ev(e, shader, from, to) ==
    [e |-> e, shader |-> shader, sample |-> from, render |-> to]

(* The places where update_optimized_blur_buffer can fail *)
NoFail == [at |-> "none", k |-> 0]
FailPoints(passes) ==
    {NoFail}
    \cup {[at |-> a, k |-> 0] :
            a \in {"bind_effects", "render_elements", "bind_blit", "blit"}}
    \cup {[at |-> "pass", k |-> k] : k \in 1..(2 * passes)}

(* ThrottleCheck without the else-branch of line 213: a call without a     *)
(* target fps is never throttled                                           *)
ThrottleCheckFpsOnly(f, fps) ==
    LET rerender_fps == IF IsSome(fps) /\ Unwrap(fps) > 0 THEN fps ELSE None
        at == f.optimized_blur_rerender_at
    IN  IF IsSome(rerender_fps)
        THEN LET interval == IntervalOf(Unwrap(rerender_fps)) IN
             IF IsSome(at) /\ Unwrap(at) > 0 + interval
             THEN [ret |-> FALSE,
                   f |-> [f EXCEPT !.optimized_blur_rerender_at = Some(0)]]
             ELSE IF IsSome(at) /\ Unwrap(at) > 0
             THEN [ret |-> TRUE, f |-> f]
             ELSE [ret |-> FALSE, f |-> f]
        ELSE [ret |-> FALSE, f |-> f]

(* Lines 203-215: the throttle.  ret: the call returns Ok at once;         *)
(* f: the buffers after it                                                 *)
ThrottleCheck(f, fps) ==
    LET rerender_fps == IF IsSome(fps) /\ Unwrap(fps) > 0 THEN fps ELSE None
        at == f.optimized_blur_rerender_at
    IN  IF IsSome(rerender_fps)
        THEN LET interval == IntervalOf(Unwrap(rerender_fps)) IN
             IF IsSome(at) /\ Unwrap(at) > 0 + interval
             THEN [ret |-> FALSE,
                   f |-> [f EXCEPT !.optimized_blur_rerender_at = Some(0)]]
             ELSE IF IsSome(at) /\ Unwrap(at) > 0
             THEN [ret |-> TRUE, f |-> f]
             ELSE [ret |-> FALSE, f |-> f]
        ELSE IF IsSome(at) /\ Unwrap(at) > 0
             THEN [ret |-> TRUE, f |-> f]
             ELSE [ret |-> FALSE, f |-> f]

(* Line 217 *)
Reschedule(m, fps) ==
    [m EXCEPT !.f.optimized_blur_rerender_at = get_rerender_at(fps)]

(* RenderScene without line 232: the roles are left as the call found them *)
RenderSceneNoReset(m, fail) ==
    IF m.result # "run" THEN m
    ELSE IF fail.at \in {"bind_effects", "render_elements"}
    THEN [m EXCEPT !.result = "panic"]
    ELSE [m EXCEPT !.log = Append(@, Ev("render_elements", "none", 0,
                                        m.f.effects.id))]

(* Lines 219-232: bind effects, render the scene into it (either failure   *)
(* panics), reset the roles                                                *)
RenderScene(m, fail) ==
    IF m.result # "run" THEN m
    ELSE IF fail.at \in {"bind_effects", "render_elements"}
    THEN [m EXCEPT !.result = "panic"]
    ELSE [m EXCEPT !.log = Append(@, Ev("render_elements", "none", 0,
                                        m.f.effects.id)),
                   !.f.current_buffer = "Normal"]

(* One iteration of the loops at 243-254 and 261-272: buffers(), the pass  *)
(* (render_blur_pass_with_frame, which `?` leaves on error), the swap      *)
FramePass(m, shader, failed) ==
    LET sample_buffer == buffers(m.f)[1]
        render_buffer == buffers(m.f)[2]
    IN  IF failed
        THEN [m EXCEPT !.result = "err",
                       !.log = Append(@, Ev("pass_failed", shader,
                                         sample_buffer.id, render_buffer.id))]
        ELSE [m EXCEPT !.log = Append(Append(@,
                                   Ev("pass", shader, sample_buffer.id,
                                      render_buffer.id)),
                                   Ev("swap", shader, 0, 0)),
                       !.f.current_buffer = swap(@)]

(* for _ in 0..passes: i counts the iterations done, k0 + i + 1 numbers    *)
(* the pass among the 2 * passes of the cycle                              *)
RECURSIVE FrameLoop(_, _, _, _, _, _)
FrameLoop(m, shader, i, passes, k0, fail) ==
    IF i >= passes \/ m.result # "run" THEN m
    ELSE FrameLoop(FramePass(m, shader,
                             fail.at = "pass" /\ fail.k = k0 + i + 1),
                   shader, i + 1, passes, k0, fail)

(* BlitOptimized that clears the generation when the blit fails *)
BlitOptimizedResetOnError(m, fail) ==
    IF m.result # "run" THEN m
    ELSE IF fail.at = "bind_blit" THEN [m EXCEPT !.result = "panic"]
    ELSE IF fail.at = "blit"
    THEN [m EXCEPT !.result = "err", !.f.optimized_blur_generation = 0]
    ELSE [m EXCEPT !.log = Append(@, Ev("blit", "none", m.f.effects.id,
                                        m.f.optimized_blur.id)),
                   !.f.optimized_blur_generation = @ + 1,
                   !.result = "ok"]

(* BlitOptimized without line 287 *)
BlitOptimizedNoCount(m, fail) ==
    IF m.result # "run" THEN m
    ELSE IF fail.at = "bind_blit" THEN [m EXCEPT !.result = "panic"]
    ELSE IF fail.at = "blit" THEN [m EXCEPT !.result = "err"]
    ELSE [m EXCEPT !.log = Append(@, Ev("blit", "none", m.f.effects.id,
                                        m.f.optimized_blur.id)),
                   !.result = "ok"]

(* Lines 274-287: blit effects into optimized_blur, bump the generation.   *)
(* The counter is a u64 that wraps; the model stops far below 2^64.        *)
BlitOptimized(m, fail) ==
    IF m.result # "run" THEN m
    ELSE IF fail.at = "bind_blit" THEN [m EXCEPT !.result = "panic"]
    ELSE IF fail.at = "blit" THEN [m EXCEPT !.result = "err"]
    ELSE [m EXCEPT !.log = Append(@, Ev("blit", "none", m.f.effects.id,
                                        m.f.optimized_blur.id)),
                   !.f.optimized_blur_generation = @ + 1,
                   !.result = "ok"]

(* The body of update_optimized_blur_buffer after the throttle *)
Refresh(f, passes, fps, fail) ==
    LET rerender_fps == IF IsSome(fps) /\ Unwrap(fps) > 0 THEN fps ELSE None
        m1 == Reschedule(Run(f), rerender_fps)
        m2 == RenderScene(m1, fail)
        m3 == FrameLoop(m2, "down", 0, passes, 0, fail)
        m4 == FrameLoop(m3, "up", 0, passes, passes, fail)
    IN  BlitOptimized(m4, fail)

(* When the call before this one (with nothing but the clock between)     *)
(* was a call of update_optimized_blur_buffer with the same fps > 0 that   *)
(* passed the throttle: how long ago it was                                *)
SinceWork(l, fps) ==
    IF /\ l.op = "update_optimized_blur_buffer"
       /\ ~l.throttled /\ l.result # "panic"
       /\ IsSome(fps) /\ Unwrap(fps) > 0 /\ l.fps = fps
    THEN Some(l.ago)
    ELSE None

(* The call before this one was a call of set_dirty at the same time that *)
(* found buffers whose deadline did not lie in the future                  *)
AfterDirty(l) ==
    /\ l.op = "set_dirty" /\ l.fresh /\ l.some
    /\ ~(IsSome(l.at) /\ Unwrap(l.at) > 0)

(* The record of the call keeps its arguments, its result, the GPU         *)
(* commands it issued, current_buffer as the call found it and the time    *)
(* since the call before it.                                               *)
update_optimized_blur_buffer(passes, fps, fail) ==
    /\ ~panicked
    /\ IsSome(fx)
    /\ Unwrap(fx).optimized_blur_generation < MaxGeneration
    /\ LET f == Unwrap(fx)
           c == ThrottleCheck(f, fps)
           m == IF c.ret
                THEN [Run(c.f) EXCEPT !.result = "ok"]
                ELSE Refresh(c.f, passes, fps, fail)
       IN  /\ c.ret => fail = NoFail
           /\ fx' = Some(m.f)
           /\ panicked' = (m.result = "panic")
           /\ last' = [op |-> "update_optimized_blur_buffer",
                       result |-> m.result, throttled |-> c.ret,
                       log |-> m.log, passes |-> passes, fps |-> fps,
                       fail |-> fail,
                       current_buffer |-> f.current_buffer,
                       since |-> SinceWork(last, fps),
                       after_dirty |-> AfterDirty(last),
                       ago |-> 0, fresh |-> TRUE]
    /\ UNCHANGED <<blur, nextId, otherVars>>

----------------------------------------------------------------------------
(* element.rs: Blur and BlurRenderElement *)

Rect(x, y, w, h) == [x |-> x, y |-> y, w |-> w, h |-> h]
Point(x, y) == [x |-> x, y |-> y]
CornerRadius(r) ==
    [top_left |-> r, top_right |-> r, bottom_right |-> r, bottom_left |-> r]

(* The arguments of Blur::render: one surface, then the same with one of  *)
(* its values changed, then with all of them changed; each with or        *)
(* without a request for true blur                                        *)
Args(sample_area, corner_radius, scale, geometry, render_loc, true_blur) ==
    [sample_area |-> sample_area, corner_radius |-> corner_radius,
     scale |-> scale, geometry |-> geometry, true_blur |-> true_blur,
     render_loc |-> render_loc]

RenderArgs ==
    LET r0 == Rect(0, 0, 200, 100)
        r1 == Rect(10, 20, 300, 100)
        p0 == Point(0, 0)
        p1 == Point(10, 20)
        c0 == CornerRadius(0)
        c1 == CornerRadius(8)
    IN  UNION {{Args(r0, c0, 1, r0, p0, tb), Args(r1, c0, 1, r0, p0, tb),
                Args(r0, c1, 1, r0, p0, tb), Args(r0, c0, 2, r0, p0, tb),
                Args(r0, c0, 1, r1, p0, tb), Args(r0, c0, 1, r0, p1, tb),
                Args(r1, c1, 2, r1, p1, tb)} : tb \in BOOLEAN}

(* to_physical_precise_round(scale) of a rectangle with whole coordinates  *)
ToPhysical(r, scale) ==
    Rect(r.x * scale, r.y * scale, r.w * scale, r.h * scale)

(* BlurRenderElement::update_uniforms.  input_to_geo is kept as the values *)
(* its matrix is the product of.                                           *)
update_uniforms(e, f, config) ==
    LET elem_geo == ToPhysical(e.sample_area, e.scale)
        buf_size == [w |-> f.output_size.w \div e.scale,
                     h |-> f.output_size.h \div e.scale]
        geo == ToPhysical(e.geometry, e.scale)
    IN  [e EXCEPT !.uniforms =
            [corner_radius |-> e.corner_radius,
             geo_size |-> [w |-> geo.w, h |-> geo.h],
             niri_scale |-> e.scale,
             noise |-> config.noise,
             input_to_geo |-> [elem_geo |-> elem_geo,
                               geo_loc |-> [x |-> geo.x, y |-> geo.y],
                               buf_size |-> buf_size,
                               src |-> e.sample_area],
             ignore_alpha |-> IF IsSome(e.alpha_tex)
                              THEN config.ignore_alpha ELSE 0,
             alpha_tex |-> IF IsSome(e.alpha_tex) THEN 1 ELSE 0]]

(* BlurRenderElement::damage_all: CommitCounter::increment *)
damage_all(e) == [e EXCEPT !.commit = @ + 1]

(* BlurVariant *)
Optimized(texture) ==
    [kind |-> "Optimized", texture |-> texture]
True(texture, config) ==
    [kind |-> "True", texture |-> texture, config |-> config,
     rerender_at |-> None]

(* BlurRenderElement::new *)
NewElement(id, f, a, config, alpha_tex, variant) ==
    update_uniforms(
        [id |-> id, uniforms |-> <<>>, alpha_tex |-> alpha_tex,
         sample_area |-> a.sample_area, scale |-> a.scale,
         corner_radius |-> a.corner_radius, geometry |-> a.geometry,
         commit |-> 0, variant |-> variant, render_loc |-> a.render_loc],
        f, config)

(* EffectiveTrueBlur that refuses true blur on the quarter turns only, the  *)
(* transforms the comment of line 140 names                                *)
EffectiveTrueBlurQuarterTurns(f, true_blur) ==
    IF f.transform \in {"_90", "_270", "Flipped90", "Flipped270"}
    THEN FALSE ELSE true_blur

(* EffectiveTrueBlur that refuses true blur on the 90 degree rotation only *)
EffectiveTrueBlurOnly90(f, true_blur) ==
    IF f.transform = "_90" THEN FALSE ELSE true_blur

(* Lines 140-146: true blur is refused on the rotated transforms *)
EffectiveTrueBlur(f, true_blur) ==
    IF f.transform \in {"Normal", "Flipped180"} THEN true_blur ELSE FALSE

(* BlurDisabled without the check of the radius *)
BlurDisabledNoRadius(config) ==
    ~config.on \/ config.passes = 0

(* Line 136 *)
BlurDisabled(config) ==
    ~config.on \/ config.passes = 0 \/ config.radius = 0

(* Lines 148-155: the texture tex_buffer() allocates *)
tex_buffer(f, id) == [id |-> id, w |-> f.effects.w, h |-> f.effects.h]

(* SwitchVariant without line 202 *)
SwitchVariantNoDamage(inner, f, config, true_blur, texId) ==
    IF true_blur # (inner.variant.kind = "True")
    THEN [inner EXCEPT !.variant =
            IF true_blur THEN True(tex_buffer(f, texId), config)
            ELSE Optimized(f.optimized_blur)]
    ELSE inner

(* Lines 188-203: switch the variant of the cached element *)
SwitchVariant(inner, f, config, true_blur, texId) ==
    IF true_blur # (inner.variant.kind = "True")
    THEN damage_all([inner EXCEPT !.variant =
            IF true_blur THEN True(tex_buffer(f, texId), config)
            ELSE Optimized(f.optimized_blur)])
    ELSE inner

(* Lines 207-216 *)
variant_needs_rerender(inner, f) ==
    IF inner.variant.kind = "Optimized"
    THEN \/ inner.variant.texture.w # f.output_size.w
         \/ inner.variant.texture.h # f.output_size.h
    ELSE \/ IsNone(inner.variant.rerender_at)
         \/ Unwrap(inner.variant.rerender_at) < 0

(* Lines 218-223 *)
variant_needs_reconfigure(inner, f) ==
    IF inner.variant.kind = "Optimized"
    THEN inner.variant.texture.id # f.optimized_blur.id
    ELSE FALSE

(* NothingChanged without the comparison of render_loc *)
NothingChangedNoLoc(inner, f, a) ==
    /\ inner.sample_area = a.sample_area
    /\ inner.geometry = a.geometry
    /\ inner.scale = a.scale
    /\ inner.corner_radius = a.corner_radius
    /\ ~variant_needs_reconfigure(inner, f)

(* Lines 226-231 *)
NothingChanged(inner, f, a) ==
    /\ inner.sample_area = a.sample_area
    /\ inner.geometry = a.geometry
    /\ inner.scale = a.scale
    /\ inner.corner_radius = a.corner_radius
    /\ inner.render_loc = a.render_loc
    /\ ~variant_needs_reconfigure(inner, f)

(* Reconfigure without line 249: the timer of true blur is left running *)
ReconfigureKeepTimer(inner, f, a, config, alpha_tex) ==
    LET v == IF inner.variant.kind = "True"
             THEN inner.variant
             ELSE [inner.variant EXCEPT !.texture = f.optimized_blur]
    IN  update_uniforms(
            damage_all([inner EXCEPT !.variant = v,
                                     !.render_loc = a.render_loc,
                                     !.sample_area = a.sample_area,
                                     !.alpha_tex = alpha_tex,
                                     !.scale = a.scale,
                                     !.geometry = a.geometry]),
            f, config)

(* Lines 246-260: take over the new values *)
Reconfigure(inner, f, a, config, alpha_tex) ==
    LET v == IF inner.variant.kind = "True"
             THEN [inner.variant EXCEPT !.rerender_at = None]
             ELSE [inner.variant EXCEPT !.texture = f.optimized_blur]
    IN  update_uniforms(
            damage_all([inner EXCEPT !.variant = v,
                                     !.render_loc = a.render_loc,
                                     !.sample_area = a.sample_area,
                                     !.alpha_tex = alpha_tex,
                                     !.scale = a.scale,
                                     !.geometry = a.geometry]),
            f, config)

(* Lines 205-262: the cached element after the variant switch *)
RenderCached(inner, f, a, config, alpha_tex) ==
    IF NothingChanged(inner, f, a)
    THEN IF variant_needs_rerender(inner, f)
         THEN damage_all(inner) ELSE inner
    ELSE Reconfigure(inner, f, a, config, alpha_tex)

(* Blur::render as a function: the cached element after the call (inner),  *)
(* the element returned (ret), whether tex_buffer() made a texture (tex)   *)
(* and whether Id::new() was called (id).  allocFail: create_buffer fails. *)
RenderResult(b, f, a, allocFail, texId, id) ==
    LET true_blur == EffectiveTrueBlur(f, a.true_blur)
        unchanged == [inner |-> b.inner, ret |-> None,
                      tex |-> FALSE, id |-> FALSE]
    IN  IF BlurDisabled(b.config) THEN unchanged
        ELSE IF IsNone(b.inner)
        THEN IF true_blur /\ allocFail THEN unchanged
             ELSE LET elem == NewElement(id, f, a, b.config, b.alpha_tex,
                                IF true_blur
                                THEN True(tex_buffer(f, texId), b.config)
                                ELSE Optimized(f.optimized_blur))
                  IN  [inner |-> Some(elem), ret |-> Some(elem),
                       tex |-> true_blur, id |-> TRUE]
        ELSE LET inner == Unwrap(b.inner)
                 switch == true_blur # (inner.variant.kind = "True")
             IN  IF switch /\ true_blur /\ allocFail THEN unchanged
                 ELSE LET elem == RenderCached(
                                    SwitchVariant(inner, f, b.config,
                                                  true_blur, texId),
                                    f, a, b.config, b.alpha_tex)
                      IN  [inner |-> Some(elem), ret |-> Some(elem),
                           tex |-> switch /\ true_blur, id |-> FALSE]

(* BlurRenderElement::geometry(scale) *)
geometry(e, scale) ==
    LET loc == [x |-> e.render_loc.x * scale, y |-> e.render_loc.y * scale]
        size == ToPhysical(e.sample_area, scale)
    IN  Rect(loc.x, loc.y, size.w, size.h)

(* The largest of a set of numbers *)
Max(S) == CHOOSE m \in S : \A n \in S : n <= m

(* BlurRenderElement::opaque_regions(scale): the rectangles reported, in   *)
(* coordinates relative to the element.  The radii and the scale are whole *)
(* numbers here, so that scaled_by and ceil() keep them.                   *)
opaque_regions(e, scale) ==
    IF IsSome(e.alpha_tex) \/ e.variant.kind = "True" THEN {}
    ELSE LET geo == geometry(e, scale)
             top_left == e.corner_radius.top_left * scale
             top_right == e.corner_radius.top_right * scale
             bottom_right == e.corner_radius.bottom_right * scale
             bottom_left == e.corner_radius.bottom_left * scale
             largest_radius == Max({top_left, top_right, bottom_right,
                                    bottom_left})
         IN  {Rect(top_left, top_left,
                   geo.w - largest_radius * 2, geo.h - largest_radius * 2)}

----------------------------------------------------------------------------
(* Blur: the operations *)

(* Blur::update_config *)
update_config(config) ==
    /\ ~panicked
    /\ blur' = [blur EXCEPT
                  !.inner = IF blur.config # config THEN None ELSE @,
                  !.config = config]
    /\ last' = [op |-> "update_config", fresh |-> TRUE]
    /\ UNCHANGED <<fx, nextId, panicked, otherVars>>

(* Blur::update_render_elements *)
update_render_elements(is_active) ==
    /\ ~panicked
    /\ blur' = [blur EXCEPT !.config.on = is_active]
    /\ last' = [op |-> "update_render_elements", fresh |-> TRUE]
    /\ UNCHANGED <<fx, nextId, panicked, otherVars>>

(* The element this Blur has returned last, while nothing but render,     *)
(* set_alpha_tex and clear_alpha_tex has been called since (and the clock  *)
(* has run): its Id and commit, and whether set_alpha_tex has been called  *)
(* since                                                                   *)
Returned(l) ==
    IF l.op = "render" /\ IsSome(l.ret)
    THEN Some([id |-> Unwrap(l.ret).id, commit |-> Unwrap(l.ret).commit,
               dropped |-> FALSE])
    ELSE IF l.op = "clear_alpha_tex" THEN l.returned
    ELSE IF l.op = "set_alpha_tex" /\ IsSome(l.returned)
    THEN Some([Unwrap(l.returned) EXCEPT !.dropped = TRUE])
    ELSE None

(* Blur::clear_alpha_tex, on the fields of the Blur *)
ClearAlphaTex(b) ==
    [b EXCEPT !.inner = IF IsSome(b.inner) /\ IsSome(b.alpha_tex)
                        THEN Some(damage_all(Unwrap(b.inner)))
                        ELSE @,
              !.alpha_tex = None]

(* SetAlphaTex that keeps the cached element and damages it *)
SetAlphaTexKeepInner(b, alpha_tex) ==
    [b EXCEPT !.alpha_tex = Some(alpha_tex),
              !.inner = IF IsSome(b.inner)
                        THEN Some(damage_all(Unwrap(b.inner))) ELSE @]

(* Blur::set_alpha_tex, on the fields of the Blur *)
SetAlphaTex(b, alpha_tex) ==
    [b EXCEPT !.alpha_tex = Some(alpha_tex),
              !.inner = None]

(* Blur::clear_alpha_tex *)
clear_alpha_tex ==
    /\ ~panicked
    /\ IsSome(blur.inner) => Unwrap(blur.inner).commit < MaxCommit
    /\ blur' = ClearAlphaTex(blur)
    /\ last' = [op |-> "clear_alpha_tex", returned |-> Returned(last),
                fresh |-> TRUE]
    /\ UNCHANGED <<fx, nextId, panicked, otherVars>>

(* Blur::set_alpha_tex, with a texture the caller has just rendered *)
set_alpha_tex ==
    /\ ~panicked
    /\ IsSome(fx)
    /\ blur' = SetAlphaTex(blur, Tex(FreshName(LiveTex, 4),
                                     Unwrap(fx).output_size))
    /\ last' = [op |-> "set_alpha_tex", returned |-> Returned(last),
                fresh |-> TRUE]
    /\ UNCHANGED <<fx, nextId, panicked, otherVars>>

(* Blur::render.  The record of the call keeps the arguments, the element  *)
(* returned, and the variant and commit of the element the call found      *)
(* cached.                                                                 *)
render(a, allocFail) ==
    /\ ~panicked
    /\ IsSome(fx)
    /\ IsNone(blur.inner) => nextId <= MaxId
    /\ IsSome(blur.inner) => Unwrap(blur.inner).commit < MaxCommit
    /\ LET f == Unwrap(fx)
           r == RenderResult(blur, f, a, allocFail,
                             FreshName(LiveTex, 4), nextId)
       IN  /\ blur' = [blur EXCEPT !.inner = r.inner]
           /\ nextId' = IF r.id THEN nextId + 1 ELSE nextId
           /\ last' = [op |-> "render", args |-> a, ret |-> r.ret,
                       cached |-> IF IsSome(blur.inner)
                                  THEN Some([kind |-> Unwrap(blur.inner)
                                                        .variant.kind,
                                             commit |-> Unwrap(blur.inner)
                                                          .commit])
                                  ELSE None,
                       fresh |-> TRUE]
    /\ UNCHANGED <<fx, panicked, otherVars>>

----------------------------------------------------------------------------
(* layer/mapped.rs: the render of a layer surface with its blur *)

(* A CommitTracker is a map from the Id of an element to its commit: here  *)
(* the set of its (Id, commit) pairs.  CommitTracker::default() is {}.     *)
(* What CommitTracker::from_elements gives for the elements of a surface:  *)
(* nothing before its first commit, then its one element after the first   *)
(* and the second commit, then that with the element of a subsurface.      *)
Trackers ==
    {{}, {<<"surface", 0>>}, {<<"surface", 1>>},
     {<<"surface", 1>>, <<"subsurface", 0>>}}

(* maybe_update_commit_tracker that does not store the tracker *)
maybe_update_commit_tracker_no_store(b, other) ==
    IF b.commit_tracker = other
    THEN [ret |-> FALSE, blur |-> b]
    ELSE [ret |-> TRUE, blur |-> b]

(* Blur::maybe_update_commit_tracker: what it returns and the Blur after   *)
(* the call                                                                *)
maybe_update_commit_tracker(b, other) ==
    IF b.commit_tracker = other
    THEN [ret |-> FALSE, blur |-> b]
    ELSE [ret |-> TRUE, blur |-> [b EXCEPT !.commit_tracker = other]]

(* The arguments MappedLayer::render gives Blur::render: the sample area   *)
(* is the geometry, render_loc its location                                *)
LayerArgs ==
    {Args(Rect(10, 20, 300, 100), CornerRadius(0), 1,
          Rect(10, 20, 300, 100), Point(10, 20), true_blur) :
        true_blur \in BOOLEAN}

(* MappedLayer::render, the part that concerns the blur.                   *)
(* tracker: CommitTracker::from_elements(rv.normal); ignore_alpha: the     *)
(* rule of the layer; block_out: target.should_block_out(..); top: the     *)
(* layer is Top or Overlay; texFail: render_to_texture fails.              *)
MappedLayer_render(tracker, ignore_alpha, block_out, top, texFail, a) ==
    /\ ~panicked
    /\ LET asked == ~block_out /\ ignore_alpha > 0
           u == IF asked THEN maybe_update_commit_tracker(blur, tracker)
                ELSE [ret |-> FALSE, blur |-> blur]
           gles_elems == asked /\ u.ret
           update_alpha_tex == IF block_out THEN ignore_alpha > 0
                               ELSE gles_elems
           runs == top /\ ~block_out /\ IsSome(fx)
           regenerated == runs /\ gles_elems
           f == Unwrap(fx)
           alpha_tex == IF regenerated /\ ~texFail
                        THEN Some(Tex(FreshName(LiveTex, 4),
                                      transform_size(f.transform,
                                                     f.output_size)))
                        ELSE None
           b2 == IF runs /\ update_alpha_tex
                 THEN IF IsSome(alpha_tex)
                      THEN SetAlphaTex(u.blur, Unwrap(alpha_tex))
                      ELSE ClearAlphaTex(u.blur)
                 ELSE u.blur
           r == RenderResult(b2, f, a, FALSE,
                             FreshName(FxTex(f) \cup BlurTex(b2), 4), nextId)
       IN  /\ texFail => regenerated
           /\ runs /\ IsNone(b2.inner) => nextId <= MaxId
           /\ IsSome(blur.inner) => Unwrap(blur.inner).commit < MaxCommit
           /\ blur' = IF runs THEN [b2 EXCEPT !.inner = r.inner] ELSE b2
           /\ nextId' = IF runs /\ r.id THEN nextId + 1 ELSE nextId
           /\ last' = [op |-> "MappedLayer::render", tracker |-> tracker,
                       ignore_alpha |-> ignore_alpha,
                       asked |-> asked, differs |-> u.ret,
                       regenerated |-> regenerated,
                       ret |-> IF runs THEN r.ret ELSE None,
                       fresh |-> TRUE]
    /\ UNCHANGED <<fx, panicked, otherVars>>

----------------------------------------------------------------------------
(* BlurRenderElement::draw of the true-blur variant and the real-time      *)
(* passes of get_main_buffer_blur                                          *)

DrawFailPoints(passes) ==
    {NoFail}
    \cup {[at |-> a, k |-> 0] :
            a \in {"sample_fbo", "blit_in", "cache_fbo", "read_fbo",
                   "blit_out", "render_texture"}}
    \cup {[at |-> "pass", k |-> k] : k \in 1..(2 * passes)}

(* blur.rs 351-418: attach the sample buffer, blit the live framebuffer    *)
(* into it                                                                 *)
BlitIn(m, fail) ==
    LET sample_buffer == buffers(m.f)[1] IN
    IF m.result # "run" THEN m
    ELSE IF fail.at \in {"sample_fbo", "blit_in"}
    THEN [m EXCEPT !.result = "err"]
    ELSE [m EXCEPT !.log = Append(@, Ev("blit_in", "none", 0,
                                        sample_buffer.id))]

(* GlPass without the swap() after the pass *)
GlPassNoSwap(m, shader, failed) ==
    LET sample_buffer == buffers(m.f)[1]
        render_buffer == buffers(m.f)[2]
    IN  IF failed
        THEN [m EXCEPT !.result = "err",
                       !.log = Append(@, Ev("pass_failed", shader,
                                         sample_buffer.id, render_buffer.id))]
        ELSE [m EXCEPT !.log = Append(@, Ev("pass", shader, sample_buffer.id,
                                            render_buffer.id))]

(* One iteration of the loops at blur.rs 427-445 and 451-469, with         *)
(* render_blur_pass_with_gl                                                *)
GlPass(m, shader, failed) ==
    LET sample_buffer == buffers(m.f)[1]
        render_buffer == buffers(m.f)[2]
    IN  IF failed
        THEN [m EXCEPT !.result = "err",
                       !.log = Append(@, Ev("pass_failed", shader,
                                         sample_buffer.id, render_buffer.id))]
        ELSE [m EXCEPT !.log = Append(Append(@,
                                   Ev("pass", shader, sample_buffer.id,
                                      render_buffer.id)),
                                   Ev("swap", shader, 0, 0)),
                       !.f.current_buffer = swap(@)]

RECURSIVE GlLoop(_, _, _, _, _, _)
GlLoop(m, shader, i, passes, k0, fail) ==
    IF i >= passes \/ m.result # "run" THEN m
    ELSE GlLoop(GlPass(m, shader, fail.at = "pass" /\ fail.k = k0 + i + 1),
                shader, i + 1, passes, k0, fail)

(* BlitOut that copies the render texture of the roles *)
BlitOutRender(m, texture, fail) ==
    IF m.result # "run" THEN m
    ELSE IF fail.at \in {"cache_fbo", "read_fbo", "blit_out"}
    THEN [m EXCEPT !.result = "err"]
    ELSE [m EXCEPT !.log = Append(@, Ev("blit", "none", buffers(m.f)[2].id,
                                        texture.id)),
                   !.result = "ok"]

(* blur.rs 472-548: copy effects into the element's texture *)
BlitOut(m, texture, fail) ==
    IF m.result # "run" THEN m
    ELSE IF fail.at \in {"cache_fbo", "read_fbo", "blit_out"}
    THEN [m EXCEPT !.result = "err"]
    ELSE [m EXCEPT !.log = Append(@, Ev("blit", "none", m.f.effects.id,
                                        texture.id)),
                   !.result = "ok"]

(* 2f32.powi(n) for n >= 0 *)
RECURSIVE powi(_)
powi(n) == IF n <= 0 THEN 1 ELSE 2 * powi(n - 1)

(* (n as f32 / d as f32).ceil() as i32, for n >= 0 and d > 0 *)
ceil(n, d) == (n + d - 1) \div d

(* dst_expanded that grows the size by twice size, not by 16 times *)
dst_expanded_upscale2(dst, passes, radius4) ==
    LET size == ceil(powi(passes + 1) * radius4, 4)
    IN  Rect(dst.x - size * 8, dst.y - size * 8,
             dst.w + size * 2, dst.h + size * 2)

(* blur.rs 335-342: the region the passes work on.  blur_config.radius is  *)
(* a float: radius4 is the radius in quarters of a pixel.                  *)
dst_expanded(dst, passes, radius4) ==
    LET size == ceil(powi(passes + 1) * radius4, 4)
    IN  Rect(dst.x - size * 8, dst.y - size * 8,
             dst.w + size * 16, dst.h + size * 16)

(* element.rs 448-454: the dst of BlurRenderElement::draw is the geometry  *)
(* of the element in physical pixels; its size is divided by the scale     *)
downscaled_dst(e) ==
    LET dst == Rect(e.render_loc.x * e.scale, e.render_loc.y * e.scale,
                    e.sample_area.w * e.scale, e.sample_area.h * e.scale)
    IN  Rect(dst.x, dst.y, dst.w \div e.scale, dst.h \div e.scale)

(* get_main_buffer_blur with its two loops in the other order *)
get_main_buffer_blur_up_first(m, config, texture, fail) ==
    LET m1 == BlitIn(m, fail)
        m2 == GlLoop(m1, "up", 0, config.passes, 0, fail)
        m3 == GlLoop(m2, "down", 0, config.passes, config.passes, fail)
    IN  BlitOut(m3, texture, fail)

(* blur.rs 314-549: the real-time passes on the live framebuffer *)
get_main_buffer_blur(m, config, texture, fail) ==
    LET m1 == BlitIn(m, fail)
        m2 == GlLoop(m1, "down", 0, config.passes, 0, fail)
        m3 == GlLoop(m2, "up", 0, config.passes, config.passes, fail)
    IN  BlitOut(m3, texture, fail)

(* The last Blur::render call while nothing but the clock and draw has     *)
(* run since: its arguments and the element it returned                    *)
PrevRender(l) ==
    IF l.op = "render" THEN Some([args |-> l.args, ret |-> l.ret])
    ELSE IF l.op = "draw" THEN l.prev
    ELSE None

(* element.rs 482-538, on the cached element.  The clone the caller draws  *)
(* shares rerender_at (an Rc) with the cached one.                         *)
draw(fail) ==
    /\ ~panicked
    /\ IsSome(fx)
    /\ IsSome(blur.inner)
    /\ Unwrap(blur.inner).variant.kind = "True"
    /\ LET e == Unwrap(blur.inner)
           v == e.variant
           m0 == Run([Unwrap(fx) EXCEPT !.current_buffer = "Normal"])
           due == IF IsSome(v.rerender_at)
                  THEN Unwrap(v.rerender_at) < 0 ELSE TRUE
           m == IF due
                THEN get_main_buffer_blur(m0, v.config, v.texture, fail)
                ELSE [m0 EXCEPT !.result = "ok"]
           res == IF m.result = "ok" /\ fail.at = "render_texture"
                  THEN "err" ELSE m.result
       IN  /\ fail \in DrawFailPoints(v.config.passes)
           /\ ~due => fail.at \in {"none", "render_texture"}
           /\ fx' = Some(m.f)
           /\ blur' = IF due /\ m.result = "ok"
                      THEN [blur EXCEPT !.inner = Some([e EXCEPT
                             !.variant.rerender_at =
                                 get_rerender_at(None)])]
                      ELSE blur
           /\ last' = [op |-> "draw", result |-> res, due |-> due,
                       log |-> m.log, prev |-> PrevRender(last),
                       dst |-> downscaled_dst(e),
                       damage |-> IF due
                                  THEN Some(dst_expanded(downscaled_dst(e),
                                                         v.config.passes,
                                                         4 * v.config.radius))
                                  ELSE None,
                       fresh |-> TRUE]
    /\ UNCHANGED <<nextId, panicked, otherVars>>

----------------------------------------------------------------------------
(* handlers/dnd_fix.rs: WorkaroundDndGrab, the pointer grab of a drag and  *)
(* drop.  The grab exists from new_pointer until the pointer unsets it.    *)
(* The calls a handler makes on the focus, the offer, the data source and  *)
(* the DndGrabHandler are kept, in order, in the record of the call.       *)

(* PointerFocus values: a surface and what client() returns for it *)
Focuses ==
    {[surface |-> "a", client |-> Some("c1")],
     [surface |-> "a2", client |-> Some("c1")],
     [surface |-> "b", client |-> Some("c2")],
     [surface |-> "x", client |-> None]}

(* Sources S: whether the downcast to WlDataSource succeeds, what its      *)
(* client() returns, and its metadata(): "none" for None, "empty" for a    *)
(* metadata whose mime_types is empty, "mimes" otherwise                   *)
Sources ==
    {[wl |-> TRUE, client |-> c, metadata |-> m] :
        c \in {None, Some("c1")}, m \in {"none", "empty", "mimes"}}
    \cup {[wl |-> FALSE, client |-> None, metadata |-> m] :
            m \in {"none", "empty", "mimes"}}

(* One call made by a handler: on a focus (target), or on the offer, the   *)
(* source or the DndGrabHandler (target None); arg is the validated flag   *)
(* of DndGrabHandler::dropped                                              *)
Call(call, target, arg) == [call |-> call, target |-> target, arg |-> arg]

(* The offer DndFocus::enter hands out: not validated until the client     *)
(* accepts it                                                              *)
NewOffer == [validated |-> FALSE]

NoGrab == None

new_pointer(source) ==
    /\ IsNone(grab)
    /\ grab' = Some([data_source |-> source, current_focus |-> None,
                     offer_data |-> None])
    /\ last' = [op |-> "new_pointer", data_source |-> source,
                log |-> <<>>, fresh |-> TRUE]
    /\ UNCHANGED exceptGrab

(* update_focus without lines 66-67: the target that loses the focus gets  *)
(* no leave                                                                *)
update_focus_no_leave(g, focus, alive, offered) ==
    LET left == /\ IsSome(g.current_focus)
                /\ (IsNone(focus) \/ Unwrap(focus) # Unwrap(g.current_focus))
        g1 == IF left
              THEN [g EXCEPT !.current_focus = None, !.offer_data = None]
              ELSE g
        log1 == IF left /\ IsSome(g.offer_data)
                THEN <<Call("OfferData::disable", None, None)>>
                ELSE <<>>
    IN  IF IsNone(focus) \/ ~alive
        THEN [grab |-> g1, log |-> log1]
        ELSE IF IsNone(g1.current_focus)
        THEN IF g1.data_source.metadata = "empty"
             THEN [grab |-> g1, log |-> log1]
             ELSE [grab |-> [g1 EXCEPT
                               !.offer_data = IF offered THEN Some(NewOffer)
                                              ELSE None,
                               !.current_focus = focus],
                   log |-> log1 \o <<Call("DndFocus::enter", focus, None)>>]
        ELSE [grab |-> g1,
              log |-> log1 \o <<Call("DndFocus::motion", focus, None)>>]

(* update_focus without lines 69-71: the offer of the target that loses    *)
(* the focus is kept                                                       *)
update_focus_keep_offer(g, focus, alive, offered) ==
    LET left == /\ IsSome(g.current_focus)
                /\ (IsNone(focus) \/ Unwrap(focus) # Unwrap(g.current_focus))
        g1 == IF left THEN [g EXCEPT !.current_focus = None] ELSE g
        log1 == IF left
                THEN <<Call("DndFocus::leave", g.current_focus, None)>>
                ELSE <<>>
    IN  IF IsNone(focus) \/ ~alive
        THEN [grab |-> g1, log |-> log1]
        ELSE IF IsNone(g1.current_focus)
        THEN IF g1.data_source.metadata = "empty"
             THEN [grab |-> g1, log |-> log1]
             ELSE [grab |-> [g1 EXCEPT
                               !.offer_data = IF offered THEN Some(NewOffer)
                                              ELSE None,
                               !.current_focus = focus],
                   log |-> log1 \o <<Call("DndFocus::enter", focus, None)>>]
        ELSE [grab |-> g1,
              log |-> log1 \o <<Call("DndFocus::motion", focus, None)>>]

(* update_focus on the grab g: the grab after it and the calls it made.    *)
(* alive is focus.alive(), offered whether DndFocus::enter returns an      *)
(* offer.                                                                  *)
update_focus(g, focus, alive, offered) ==
    LET left == /\ IsSome(g.current_focus)
                /\ (IsNone(focus) \/ Unwrap(focus) # Unwrap(g.current_focus))
        g1 == IF left
              THEN [g EXCEPT !.current_focus = None, !.offer_data = None]
              ELSE g
        log1 == IF left
                THEN <<Call("DndFocus::leave", g.current_focus, None)>>
                     \o (IF IsSome(g.offer_data)
                         THEN <<Call("OfferData::disable", None, None)>>
                         ELSE <<>>)
                ELSE <<>>
    IN  IF IsNone(focus) \/ ~alive
        THEN [grab |-> g1, log |-> log1]
        ELSE IF IsNone(g1.current_focus)
        THEN IF g1.data_source.metadata = "empty"
             THEN [grab |-> g1, log |-> log1]
             ELSE [grab |-> [g1 EXCEPT
                               !.offer_data = IF offered THEN Some(NewOffer)
                                              ELSE None,
                               !.current_focus = focus],
                   log |-> log1 \o <<Call("DndFocus::enter", focus, None)>>]
        ELSE [grab |-> g1,
              log |-> log1 \o <<Call("DndFocus::motion", focus, None)>>]

(* PointerGrab::motion *)
motion(focus, alive, offered) ==
    /\ IsSome(grab)
    /\ LET r == update_focus(Unwrap(grab), focus, alive, offered)
       IN  /\ grab' = Some(r.grab)
           /\ last' = [op |-> "motion", focus |-> focus, alive |-> alive,
                       before |-> Unwrap(grab), log |-> r.log,
                       fresh |-> TRUE]
    /\ UNCHANGED exceptGrab

(* The client of the entered target accepts the offer, or takes that back: *)
(* what OfferData::validated() reports from then on                        *)
offer_validated(v) ==
    /\ IsSome(grab)
    /\ IsSome(Unwrap(grab).offer_data)
    /\ Unwrap(Unwrap(grab).offer_data).validated # v
    /\ grab' = Some([Unwrap(grab) EXCEPT !.offer_data = Some([validated |-> v])])
    /\ last' = [op |-> "offer_validated", validated |-> v, log |-> <<>>,
                fresh |-> TRUE]
    /\ UNCHANGED exceptGrab

(* finish_drop, lines 116-123 *)
same_client_focused(g) == IsSome(g.current_focus)
same_client(g) ==
    /\ IsSome(g.current_focus)
    /\ IsSome(Unwrap(g.current_focus).client)
    /\ g.data_source.wl
    /\ IsSome(g.data_source.client)
    /\ Unwrap(g.data_source.client) = Unwrap(Unwrap(g.current_focus).client)

(* finish_drop, lines 124-128 *)
validated_upstream(g) ==
    IsSome(g.offer_data) /\ Unwrap(g.offer_data).validated
validated(g) ==
    IF same_client(g)
    THEN FALSE
    ELSE IsSome(g.offer_data) /\ Unwrap(g.offer_data).validated

(* finish_drop that lets the offer decide for itself, as smithay's grab    *)
(* does: the offer gets drop whenever it reports validated                 *)
finish_drop_offer_decides(g) ==
    LET v == validated(g)
    IN  (IF IsSome(g.current_focus)
         THEN <<Call("DndFocus::drop", g.current_focus, None)>> ELSE <<>>)
        \o (IF IsSome(g.offer_data)
            THEN IF Unwrap(g.offer_data).validated
                 THEN <<Call("OfferData::drop", None, None)>>
                 ELSE <<Call("OfferData::disable", None, None)>>
            ELSE <<>>)
        \o (IF ~v THEN <<Call("Source::cancel", None, None)>>
            ELSE <<Call("Source::drop_performed", None, None)>>)
        \o <<Call("DndGrabHandler::dropped", g.current_focus, Some(v))>>
        \o (IF IsSome(g.current_focus)
            THEN <<Call("DndFocus::leave", g.current_focus, None)>> ELSE <<>>)

(* finish_drop: the calls it makes, in order *)
finish_drop(g) ==
    LET v == validated(g)
    IN  (IF IsSome(g.current_focus)
         THEN <<Call("DndFocus::drop", g.current_focus, None)>> ELSE <<>>)
        \o (IF IsSome(g.offer_data)
            THEN IF v THEN <<Call("OfferData::drop", None, None)>>
                 ELSE <<Call("OfferData::disable", None, None)>>
            ELSE <<>>)
        \o (IF ~v THEN <<Call("Source::cancel", None, None)>>
            ELSE <<Call("Source::drop_performed", None, None)>>)
        \o <<Call("DndGrabHandler::dropped", g.current_focus, Some(v))>>
        \o (IF IsSome(g.current_focus)
            THEN <<Call("DndFocus::leave", g.current_focus, None)>> ELSE <<>>)

(* PointerGrab::unset: the pointer drops the grab, once *)
UnsetCall(g, by) ==
    [op |-> "unset", by |-> by, data_source |-> g.data_source,
     current_focus |-> g.current_focus, offer_data |-> g.offer_data,
     log |-> finish_drop(g), fresh |-> TRUE]

unset ==
    /\ IsSome(grab)
    /\ grab' = None
    /\ last' = UnsetCall(Unwrap(grab), "unset_grab")
    /\ UNCHANGED exceptGrab

(* PointerGrab::button: the grab ends when the last button is released *)
button(pressed_is_empty) ==
    /\ IsSome(grab)
    /\ IF pressed_is_empty
       THEN /\ grab' = None
            /\ last' = UnsetCall(Unwrap(grab), "button")
       ELSE /\ grab' = grab
            /\ last' = [op |-> "button", log |-> <<>>, fresh |-> TRUE]
    /\ UNCHANGED exceptGrab

----------------------------------------------------------------------------
(* layout: the scrolling view of one workspace, as the layout tests drive  *)
(* it (layout/tests/fullscreen.rs).  Every column holds one tiled window;  *)
(* the operations act on the window of the active column.  view_offset is  *)
(* the view position relative to the active column; it moves towards       *)
(* target until CompleteAnimations.                                        *)

GAP == 16
VIEW_WIDTH == 1280
MaxWindows == 3

(* Window widths: narrow, more than half the view, nearly the whole view *)
WindowWidths == {100, 700, 1270}

EmptyLayout ==
    [columns |-> <<>>, active |-> 0, is_fullscreen |-> FALSE,
     pending_fullscreen |-> FALSE, view_offset |-> 0, target |-> 0,
     view_offset_to_restore |-> None]

RECURSIVE column_x(_, _)
column_x(columns, idx) ==
    IF idx <= 1 THEN 0
    ELSE column_x(columns, idx - 1) + columns[idx - 1] + GAP

view_pos(l) == column_x(l.columns, l.active) + l.view_offset

Abs(n) == IF n < 0 THEN -n ELSE n

(* The view offset that shows the column at new_col_x, moving the view     *)
(* from cur_x only as far as needed                                        *)
compute_new_view_offset(cur_x, new_col_x, width) ==
    IF VIEW_WIDTH <= width THEN 0
    ELSE LET half == (VIEW_WIDTH - width) \div 2
             padding == IF half < GAP THEN half ELSE GAP
             new_x == new_col_x - padding
             new_right_x == new_col_x + width + padding
         IN  IF cur_x <= new_x /\ new_right_x <= cur_x + VIEW_WIDTH
             THEN -(new_col_x - cur_x)
             ELSE IF Abs(cur_x - new_x)
                      <= Abs(cur_x + VIEW_WIDTH - new_right_x)
             THEN -padding
             ELSE -(VIEW_WIDTH - padding - width)

Settled(l) == l.view_offset = l.target

(* The record of a layout call.  before is the view position at which the  *)
(* last request to fullscreen a tiled window found the settled view.       *)
LayoutOps == {"AddWindow", "FullscreenWindow", "Communicate",
              "CompleteAnimations"}

Before(l) == IF l.op \in LayoutOps THEN l.before ELSE None

LayoutCall(op, changed, before) ==
    [op |-> op, changed |-> changed, before |-> before, fresh |-> TRUE]

InsertAt(s, i, x) == SubSeq(s, 1, i - 1) \o <<x>> \o SubSeq(s, i, Len(s))

(* Op::AddWindow: a new column right of the active one, which it replaces  *)
(* as the active column.  The view moves to show it, at once when it is    *)
(* the first column.                                                       *)
AddWindow(width) ==
    /\ Len(layout.columns) < MaxWindows
    /\ ~layout.is_fullscreen /\ ~layout.pending_fullscreen
    /\ LET idx == layout.active + 1
           columns == InsertAt(layout.columns, idx, width)
           cur_x == column_x(layout.columns, layout.active) + layout.target
           offset == compute_new_view_offset(cur_x, column_x(columns, idx),
                                             width)
           shift == column_x(columns, idx)
                       - column_x(layout.columns, layout.active)
       IN  /\ layout' = [layout EXCEPT
                           !.columns = columns, !.active = idx,
                           !.view_offset =
                               IF layout.active = 0 THEN offset
                               ELSE layout.view_offset - shift,
                           !.target = offset]
           /\ last' = LayoutCall("AddWindow", TRUE, None)
    /\ UNCHANGED exceptLayout

(* Op::FullscreenWindow: toggles what is asked of the window *)
FullscreenWindow ==
    /\ layout.active > 0
    /\ layout' = [layout EXCEPT
                    !.pending_fullscreen = ~layout.pending_fullscreen]
    /\ last' = LayoutCall("FullscreenWindow", TRUE,
                          IF ~layout.is_fullscreen
                             /\ ~layout.pending_fullscreen
                          THEN IF Settled(layout)
                               THEN Some(view_pos(layout)) ELSE None
                          ELSE Before(last))
    /\ UNCHANGED exceptLayout

(* Entering fullscreen keeps the view offset to come back to and moves the *)
(* view onto the column; leaving it moves the view back                    *)
CommunicateForget(l) ==
    IF ~l.pending_fullscreen THEN l
    ELSE IF ~l.is_fullscreen
    THEN [l EXCEPT !.is_fullscreen = TRUE, !.pending_fullscreen = FALSE,
                   !.view_offset_to_restore = Some(0), !.target = 0]
    ELSE [l EXCEPT !.is_fullscreen = FALSE, !.pending_fullscreen = FALSE,
                   !.target = Unwrap(l.view_offset_to_restore),
                   !.view_offset_to_restore = None]
CommunicateWindow(l) ==
    IF ~l.pending_fullscreen THEN l
    ELSE IF ~l.is_fullscreen
    THEN [l EXCEPT !.is_fullscreen = TRUE, !.pending_fullscreen = FALSE,
                   !.view_offset_to_restore = Some(l.target), !.target = 0]
    ELSE [l EXCEPT !.is_fullscreen = FALSE, !.pending_fullscreen = FALSE,
                   !.target = Unwrap(l.view_offset_to_restore),
                   !.view_offset_to_restore = None]

(* Op::Communicate: the window acknowledges what was asked of it *)
Communicate ==
    /\ layout.active > 0
    /\ layout' = CommunicateWindow(layout)
    /\ last' = LayoutCall("Communicate", layout.pending_fullscreen,
                          Before(last))
    /\ UNCHANGED exceptLayout

(* Op::CompleteAnimations *)
CompleteAnimations ==
    /\ layout' = [layout EXCEPT !.view_offset = layout.target]
    /\ last' = LayoutCall("CompleteAnimations", ~Settled(layout),
                          Before(last))
    /\ UNCHANGED exceptLayout

----------------------------------------------------------------------------
(* layout/tab_indicator.rs: TitleTexture, the cached rendering of the      *)
(* title of one tab.  Sizes are records of w and h.  A texture keeps, with *)
(* its size in physical pixels and its scale, the title and the font size  *)
(* it was rendered for.                                                    *)

Titles == {"", "ab", "abcdef"}

(* The number of glyphs of a title *)
TitleLen(title) ==
    IF title = "" THEN 0 ELSE IF title = "ab" THEN 2 ELSE 6

TitleScales == {1, 2}
FontSizes == {10, 20}

(* Values of max_size, in logical pixels *)
MaxSizes ==
    {[w |-> 50, h |-> 20], [w |-> 30, h |-> 20], [w |-> 100, h |-> 20],
     [w |-> 50, h |-> 8], [w |-> 0, h |-> 20]}

Option(S) == {None} \cup {Some(x) : x \in S}

Min(a, b) == IF a < b THEN a ELSE b

(* layout.pixel_size(): every glyph of a font of n px is n px wide and    *)
(* high, times the scale                                                  *)
pixel_size(title, scale, font_size) ==
    [w |-> TitleLen(title) * font_size * scale, h |-> font_size * scale]

(* render_title_texture: Err is None, Ok((buffer, wanted_size)) is Some.   *)
(* fail: cairo or the upload of the texture fails.                         *)
render_title_texture(title, scale, max_size, font_size, fail) ==
    LET wanted_size == pixel_size(title, scale, font_size)
        width == Min(wanted_size.w, max_size.w * scale)
        height == Min(wanted_size.h, max_size.h * scale)
    IN  IF fail \/ ~(width > 0 /\ height > 0) THEN None
        ELSE Some([buffer |-> [w |-> width, h |-> height, scale |-> scale,
                               title |-> title, font_size |-> font_size],
                   wanted_size |-> wanted_size])

(* TextureBuffer::logical_size *)
logical_size(texture) ==
    [w |-> texture.w \div texture.scale, h |-> texture.h \div texture.scale]

NoTitleTexture == None

(* TitleTexture::new *)
TitleTexture_new(title, scale, max_size, font_size) ==
    /\ IsNone(title_texture)
    /\ title_texture' = Some([title |-> title, scale |-> scale,
                              texture |-> None, max_size |-> max_size,
                              wanted_size |-> None, font_size |-> font_size])
    /\ last' = [op |-> "TitleTexture::new", fresh |-> TRUE]
    /\ UNCHANGED exceptTitleTexture

Cleared(t) == [t EXCEPT !.texture = None, !.wanted_size = None]

(* should_dirty that looks only at a texture larger than the new maximum *)
should_dirty_shrink_only(t, new_max_size) ==
    IF IsSome(t.texture) /\ IsSome(t.wanted_size)
    THEN LET tex_size == logical_size(Unwrap(t.texture))
         IN  \/ tex_size.w > new_max_size.w
             \/ tex_size.h > new_max_size.h
    ELSE TRUE

(* Lines 587-599 *)
should_dirty(t, new_max_size) ==
    IF IsSome(t.texture) /\ IsSome(t.wanted_size)
    THEN LET wanted_size ==
                 [w |-> Unwrap(t.wanted_size).w \div t.scale,
                  h |-> Unwrap(t.wanted_size).h \div t.scale]
             tex_size == logical_size(Unwrap(t.texture))
         IN  \/ (wanted_size.w >= t.max_size.w
                   /\ new_max_size.w > t.max_size.w)
             \/ (wanted_size.h >= t.max_size.h
                   /\ new_max_size.h > t.max_size.h)
             \/ tex_size.w > new_max_size.w
             \/ tex_size.h > new_max_size.h
    ELSE TRUE

(* TitleTexture::update_config as a function of the TitleTexture t *)
UpdateConfig(t, new_title, new_scale, new_max_size, new_font_size) ==
    LET t1 == IF IsSome(new_font_size)
              THEN [(IF Unwrap(new_font_size) # t.font_size
                     THEN Cleared(t) ELSE t)
                    EXCEPT !.font_size = Unwrap(new_font_size)]
              ELSE t
        t2 == IF IsSome(new_title)
              THEN [(IF Unwrap(new_title) # t1.title
                     THEN Cleared(t1) ELSE t1)
                    EXCEPT !.title = Unwrap(new_title)]
              ELSE t1
        t3 == IF IsSome(new_scale)
              THEN [(IF Unwrap(new_scale) # t2.scale
                     THEN Cleared(t2) ELSE t2)
                    EXCEPT !.scale = Unwrap(new_scale)]
              ELSE t2
    IN  IF IsSome(new_max_size)
        THEN [(IF /\ Unwrap(new_max_size) # t3.max_size
                  /\ should_dirty(t3, Unwrap(new_max_size))
               THEN Cleared(t3) ELSE t3)
              EXCEPT !.max_size = Unwrap(new_max_size)]
        ELSE t3

TitleTexture_update_config(new_title, new_scale, new_max_size, new_font_size) ==
    /\ IsSome(title_texture)
    /\ title_texture' = Some(UpdateConfig(Unwrap(title_texture), new_title,
                                          new_scale, new_max_size,
                                          new_font_size))
    /\ last' = [op |-> "TitleTexture::update_config",
                new_title |-> new_title, new_scale |-> new_scale,
                new_max_size |-> new_max_size,
                new_font_size |-> new_font_size,
                max_size |-> Unwrap(title_texture).max_size,
                had_texture |-> IsSome(Unwrap(title_texture).texture),
                fresh |-> TRUE]
    /\ UNCHANGED exceptTitleTexture

(* TitleTexture::get: ret is the texture of Ok, None for Err *)
TitleTexture_get(fail) ==
    /\ IsSome(title_texture)
    /\ LET t == Unwrap(title_texture)
           r == render_title_texture(t.title, t.scale, t.max_size,
                                     t.font_size, fail)
       IN  IF t.title = ""
           THEN /\ ~fail
                /\ title_texture' = title_texture
                /\ last' = [op |-> "TitleTexture::get", ret |-> None,
                            rendered |-> FALSE, fresh |-> TRUE]
           ELSE IF IsSome(t.texture)
           THEN /\ ~fail
                /\ title_texture' = title_texture
                /\ last' = [op |-> "TitleTexture::get", ret |-> t.texture,
                            rendered |-> FALSE, fresh |-> TRUE]
           ELSE IF IsNone(r)
           THEN /\ title_texture' = title_texture
                /\ last' = [op |-> "TitleTexture::get", ret |-> None,
                            rendered |-> FALSE, fresh |-> TRUE]
           ELSE /\ title_texture' =
                      Some([t EXCEPT
                              !.texture = Some(Unwrap(r).buffer),
                              !.wanted_size = Some(Unwrap(r).wanted_size)])
                /\ last' = [op |-> "TitleTexture::get",
                            ret |-> Some(Unwrap(r).buffer),
                            rendered |-> TRUE, fresh |-> TRUE]
    /\ UNCHANGED exceptTitleTexture

----------------------------------------------------------------------------
(* layout/tab_indicator.rs: the rectangles of the tabs of a column.  The   *)
(* indicator is at the top (the tabs lie along x), scale is 1, the config  *)
(* holds whole pixels and no open animation runs (progress = 1), so that   *)
(* the rounding to physical pixels leaves every length but px_per_tab as   *)
(* it is.  A usize has UsizeModulus values.  overflow_checks: the build    *)
(* checks integer overflow (debug) or wraps (release).                     *)

MaxTabs == 3

UsizeModulus == 65536

(* Widths of the tabs area, gaps_between_tabs, and x of the pointer *)
AreaWidths == {100, 101}
TabGaps == {0, 2}
PointXs == {0, 30, 50, 70}

(* a - b on usize *)
usize_sub(a, b, overflow_checks) ==
    IF a >= b THEN [panic |-> FALSE, wrapped |-> FALSE, value |-> a - b]
    ELSE IF overflow_checks
    THEN [panic |-> TRUE, wrapped |-> FALSE, value |-> 0]
    ELSE [panic |-> FALSE, wrapped |-> TRUE,
          value |-> (a - b) % UsizeModulus]

(* Lines 155-172: the rectangles idx..count-1 (x and width), the first     *)
(* ones_left of them one pixel wider                                       *)
RECURSIVE TabRectsFrom(_, _, _, _, _, _)
TabRectsFrom(idx, count, x, px_per_tab, gaps_between, ones_left) ==
    IF idx >= count THEN <<>>
    ELSE LET w == IF ones_left > 0 THEN px_per_tab + 1 ELSE px_per_tab
         IN  <<[x |-> x, w |-> w]>>
             \o TabRectsFrom(idx + 1, count, x + w + gaps_between,
                             px_per_tab, gaps_between,
                             IF ones_left > 0 THEN ones_left - 1 ELSE 0)

(* TabIndicator::tab_rects.  With count = 0 a build that wraps goes on     *)
(* with floats that are infinite or NaN and returns the empty iterator.    *)
tab_rects(side, count, gaps_between, overflow_checks) ==
    LET count_minus_1 == usize_sub(count, 1, overflow_checks)
        min_length == (side + 1) \div 2
        shortest_length == count * (1 + gaps_between) - gaps_between
        length == IF min_length > shortest_length THEN min_length
                  ELSE shortest_length
        px_per_tab == (length + gaps_between) \div count - gaps_between
        floored_length == count_minus_1.value * (px_per_tab + gaps_between)
                          + px_per_tab
        ones_left == length - floored_length
        shader_loc_x == (side - length + 1) \div 2
    IN  IF count_minus_1.panic
        THEN [result |-> "panic", wrapped |-> FALSE, rects |-> <<>>]
        ELSE IF count = 0
        THEN [result |-> "ok", wrapped |-> count_minus_1.wrapped,
              rects |-> <<>>]
        ELSE [result |-> "ok", wrapped |-> count_minus_1.wrapped,
              rects |-> TabRectsFrom(0, count, shader_loc_x, px_per_tab,
                                     gaps_between, ones_left)]

(* What a call without tab_rects leaves *)
NoRects == [result |-> "ok", wrapped |-> FALSE, rects |-> <<>>]

(* TabIndicator::update_render_elements: shader_locs takes the places of   *)
(* the rectangles                                                          *)
TabIndicator_update_render_elements(tab_count, enabled, off, hide_when_single_tab, side, gaps_between, overflow_checks) ==
    /\ ~panicked
    /\ LET r == IF ~enabled \/ off THEN NoRects
                ELSE IF hide_when_single_tab /\ tab_count = 1 THEN NoRects
                ELSE tab_rects(side, tab_count, gaps_between, overflow_checks)
       IN  /\ panicked' = (r.result = "panic")
           /\ last' = [op |-> "TabIndicator::update_render_elements",
                       tab_count |-> tab_count, enabled |-> enabled,
                       off |-> off,
                       hide_when_single_tab |-> hide_when_single_tab,
                       side |-> side, gaps_between |-> gaps_between,
                       overflow_checks |-> overflow_checks,
                       result |-> r.result, wrapped |-> r.wrapped,
                       shader_locs |-> [i \in DOMAIN r.rects |-> r.rects[i].x],
                       rects |-> r.rects, fresh |-> TRUE]
    /\ UNCHANGED <<fx, blur, nextId, otherVars>>

(* Lines 341-358: the first rectangle that holds the point *)
FindTab(rects, x) ==
    LET hits == {i \in DOMAIN rects :
                    rects[i].x <= x /\ x < rects[i].x + rects[i].w}
    IN  IF hits = {} THEN None
        ELSE Some((CHOOSE i \in hits : \A j \in hits : i <= j) - 1)

(* TabIndicator::hit, for a point within the height of the tabs *)
TabIndicator_hit(tab_count, point_x, off, hide_when_single_tab, side, gaps_between, overflow_checks) ==
    /\ ~panicked
    /\ LET r == IF off THEN NoRects
                ELSE IF hide_when_single_tab /\ tab_count = 1 THEN NoRects
                ELSE tab_rects(side, tab_count, gaps_between, overflow_checks)
       IN  /\ panicked' = (r.result = "panic")
           /\ last' = [op |-> "TabIndicator::hit",
                       tab_count |-> tab_count, point_x |-> point_x,
                       off |-> off,
                       hide_when_single_tab |-> hide_when_single_tab,
                       side |-> side, gaps_between |-> gaps_between,
                       overflow_checks |-> overflow_checks,
                       result |-> r.result, wrapped |-> r.wrapped,
                       rects |-> r.rects,
                       ret |-> FindTab(r.rects, point_x), fresh |-> TRUE]
    /\ UNCHANGED <<fx, blur, nextId, otherVars>>

----------------------------------------------------------------------------
(* protocols/kde_blur.rs: the org_kde_kwin_blur_manager global and the     *)
(* org_kde_kwin_blur objects a client creates with it.  kde_blur holds     *)
(* the OrgKdeKwinBlurState of every object in the order of creation, and   *)
(* whether the object still exists: release is the destructor of the       *)
(* protocol, no request arrives on an object after it.                     *)

MaxBlurObjects == 3

Surfaces == {"s1", "s2"}

NoBlurObjects == <<>>

(* The requests of org_kde_kwin_blur_manager; "other" is a request the     *)
(* match of line 87 has no arm for                                         *)
ManagerRequests ==
    {[kind |-> k, surface |-> s] : k \in {"Create", "Unset"}, s \in Surfaces}
    \cup {[kind |-> "other", surface |-> "none"]}

(* The requests of org_kde_kwin_blur *)
BlurRequests == {"Commit", "SetRegion", "Release", "other"}

(* Lines 87-100 with a Create arm that enables blur at once *)
manager_calls_create_enables(request) ==
    IF request.kind = "Create"
    THEN <<Call("enable_blur", request.surface, None)>>
    ELSE IF request.kind = "Unset"
    THEN <<Call("disable_blur", request.surface, None)>>
    ELSE <<>>

(* Lines 87-100: the calls the manager makes on the handler *)
manager_calls(request) ==
    IF request.kind = "Unset"
    THEN <<Call("disable_blur", request.surface, None)>>
    ELSE <<>>

(* Dispatch<OrgKdeKwinBlurManager>::request *)
OrgKdeKwinBlurManager_request(request) ==
    /\ request.kind = "Create" => Len(kde_blur) < MaxBlurObjects
    /\ kde_blur' = IF request.kind = "Create"
                   THEN Append(kde_blur, [surface |-> request.surface,
                                          alive |-> TRUE])
                   ELSE kde_blur
    /\ last' = [op |-> "OrgKdeKwinBlurManager::request",
                request |-> request, log |-> manager_calls(request),
                fresh |-> TRUE]
    /\ UNCHANGED exceptKdeBlur

(* Lines 118-131 with a Release arm that disables blur *)
blur_calls_release_disables(data, request) ==
    IF request = "Commit"
    THEN <<Call("enable_blur", data.surface, None)>>
    ELSE IF request = "Release"
    THEN <<Call("disable_blur", data.surface, None)>>
    ELSE <<>>

(* Lines 118-131: the calls a blur object with the user data `data` makes  *)
(* on the handler                                                          *)
blur_calls(data, request) ==
    IF request = "Commit"
    THEN <<Call("enable_blur", data.surface, None)>>
    ELSE <<>>

(* Dispatch<OrgKdeKwinBlur>::request on the object id *)
OrgKdeKwinBlur_request(id, request) ==
    /\ id \in DOMAIN kde_blur
    /\ kde_blur[id].alive
    /\ kde_blur' = IF request = "Release"
                   THEN [kde_blur EXCEPT ![id].alive = FALSE]
                   ELSE kde_blur
    /\ last' = [op |-> "OrgKdeKwinBlur::request", id |-> id,
                request |-> request,
                log |-> blur_calls(kde_blur[id], request),
                fresh |-> TRUE]
    /\ UNCHANGED exceptKdeBlur

----------------------------------------------------------------------------
InitOther ==
    /\ grab = NoGrab
    /\ layout = EmptyLayout
    /\ title_texture = NoTitleTexture
    /\ kde_blur = NoBlurObjects

----------------------------------------------------------------------------
(* Spec: the buffers of one output, refreshed under every frame rate and   *)
(* failure.  Blur::new(config) has made the Blur.  (set_dirty, which       *)
(* changes nothing once the buffers have a deadline, is followed in        *)
(* SpecLife.)                                                              *)

InitWith(configs) ==
    /\ fx = None
    /\ blur \in {[config |-> c, inner |-> None, alpha_tex |-> None,
                  commit_tracker |-> {}] : c \in configs}
    /\ nextId = 1
    /\ panicked = FALSE
    /\ last = NoCall
    /\ InitOther

Init == InitWith({Config(TRUE, 1, 5)})

FixedArgs ==
    Args(Rect(0, 0, 200, 100), CornerRadius(0), 1, Rect(0, 0, 200, 100),
         Point(0, 0), TRUE)

Next ==
    \/ \E d \in TickSteps : Tick(d)
    \/ \E k \in 0..3 : init_for_output("Normal", [w |-> 1920, h |-> 1080], k)
    \/ \E t \in {"Normal", "_90"}, k \in 0..3 :
          update_for_output(t, [w |-> 1920, h |-> 1080], k)
    \/ \E p \in {0, MaxPasses}, fps \in FpsChoices :
          \E fail \in FailPoints(p) :
             update_optimized_blur_buffer(p, fps, fail)

Spec == Init /\ [][Next]_vars

----------------------------------------------------------------------------
(* SpecDraw: both pass loops on the same buffers.  One surface asks for    *)
(* true blur and is drawn (element.rs), while the optimized buffer of the  *)
(* output is refreshed at the default rate (blur.rs).                      *)

NextDraw ==
    \/ \E d \in TickSteps : Tick(d)
    \/ init_for_output("Normal", [w |-> 1920, h |-> 1080], 0)
    \/ \E p \in 1..MaxPasses :
          \E fail \in FailPoints(p) :
             update_optimized_blur_buffer(p, None, fail)
    \/ render(FixedArgs, FALSE)
    \/ \E fail \in DrawFailPoints(MaxPasses) : draw(fail)

InitDraw == InitWith({Config(TRUE, MaxPasses, 5)})

SpecDraw == InitDraw /\ [][NextDraw]_vars

----------------------------------------------------------------------------
(* SpecBlur: the cached element of one Blur with a fixed config through    *)
(* render calls with changing arguments, draws and reinitializations of    *)
(* the output's buffers.  The output has its buffers from the start        *)
(* (init_for_output has run).                                              *)

InitBlur ==
    /\ fx = Some(NewFramebuffers("Normal", [w |-> 1920, h |-> 1080], {}))
    /\ blur = [config |-> Config(TRUE, MaxPasses, 5), inner |-> None,
               alpha_tex |-> None, commit_tracker |-> {}]
    /\ nextId = 1
    /\ panicked = FALSE
    /\ last = OutputCall("init_for_output", "Normal",
                         [w |-> 1920, h |-> 1080], 0, "ok")
    /\ InitOther

NextBlur ==
    \/ Tick(DEFAULT_BLUR_RERENDER_INTERVAL + 1)
    \/ \E t \in {"Normal", "_90"} :
          update_for_output(t, [w |-> 1920, h |-> 1080], 0)
    \/ \E a \in RenderArgs :
          \E allocFail \in IF a.true_blur THEN BOOLEAN ELSE {FALSE} :
             render(a, allocFail)
    \/ draw(NoFail)

SpecBlur == InitBlur /\ [][NextBlur]_vars

----------------------------------------------------------------------------
(* SpecConfig: one surface whose Blur is created with, and changed to,     *)
(* every config, and switched on and off                                   *)

InitConfig == InitWith(Configs)

NextConfig ==
    \/ Tick(DEFAULT_BLUR_RERENDER_INTERVAL + 1)
    \/ \E t \in {"Normal", "_90"} :
          init_for_output(t, [w |-> 1920, h |-> 1080], 0)
    \/ \E c \in Configs : update_config(c)
    \/ \E is_active \in BOOLEAN : update_render_elements(is_active)
    \/ \E a \in RenderArgs, allocFail \in BOOLEAN : render(a, allocFail)
    \/ draw(NoFail)

SpecConfig == InitConfig /\ [][NextConfig]_vars

----------------
(* SpecTransform: one surface with fixed geometry on an output that is     *)
(* initialized with, and changed to, every transform and mode size         *)

InitTransform == InitWith({Config(TRUE, 1, 5)})

NextTransform ==
    \/ Tick(DEFAULT_BLUR_RERENDER_INTERVAL + 1)
    \/ \E t \in Transforms :
          init_for_output(t, [w |-> 1920, h |-> 1080], 0)
    \/ \E t \in Transforms, mode \in ModeSizes :
          update_for_output(t, mode, 0)
    \/ \E true_blur \in BOOLEAN, allocFail \in BOOLEAN :
          render([FixedArgs EXCEPT !.true_blur = true_blur], allocFail)
    \/ draw(NoFail)

SpecTransform == InitTransform /\ [][NextTransform]_vars

----------------------------------------------------------------------------
(* SpecLife: the buffers of one output through their life: made for every  *)
(* mode size, remade on a change of mode or transform with every           *)
(* create_buffer failing in turn, marked dirty, and refreshed              *)

LifeTransforms == {"Normal", "_90"}

NextLife ==
    \/ \E d \in TickSteps : Tick(d)
    \/ \E t \in LifeTransforms, mode \in ModeSizes, k \in 0..3 :
          init_for_output(t, mode, k)
    \/ \E t \in LifeTransforms, mode \in ModeSizes, k \in 0..3 :
          update_for_output(t, mode, k)
    \/ set_dirty
    \/ \E fps \in FpsChoices, fail \in {NoFail, [at |-> "blit", k |-> 0]} :
          update_optimized_blur_buffer(1, fps, fail)

InitLife == InitWith({Config(TRUE, 1, 5)})

SpecLife == InitLife /\ [][NextLife]_vars

----------------------------------------------------------------------------
(* SpecAlpha: one Blur with a fixed config whose alpha texture is set and  *)
(* cleared between render calls with changing arguments                    *)

NextAlpha ==
    \/ Tick(DEFAULT_BLUR_RERENDER_INTERVAL + 1)
    \/ \E a \in RenderArgs : render(a, FALSE)
    \/ set_alpha_tex
    \/ clear_alpha_tex

SpecAlpha == InitBlur /\ [][NextAlpha]_vars

----------------------------------------------------------------------------
(* SpecLayer: one layer surface that commits, gets subsurfaces and is      *)
(* rendered frame after frame, with and without the ignore_alpha rule, on  *)
(* an output that gets its buffers                                         *)

NextLayer ==
    \/ init_for_output("Normal", [w |-> 1920, h |-> 1080], 0)
    \/ \E tracker \in Trackers, ignore_alpha \in {0, 1},
          block_out \in BOOLEAN, top \in BOOLEAN, texFail \in BOOLEAN,
          a \in LayerArgs :
          MappedLayer_render(tracker, ignore_alpha, block_out, top, texFail,
                             a)

SpecLayer == InitDraw /\ [][NextLayer]_vars

----------------------------------------------------------------------------
(* SpecDamage: the region get_main_buffer_blur works on, as a function of  *)
(* the dst it is given and of the passes and the radius of the config      *)

DstRects ==
    {Rect(0, 0, 200, 100), Rect(10, 20, 200, 100), Rect(0, 0, 1, 1),
     Rect(400, 300, 1920, 1080), Rect(0, 0, 300, 100), Rect(7, 0, 33, 55),
     Rect(0, 9, 640, 480)}

(* Radii in quarters of a pixel: 0.25, 0.5, 0.75, 1, 1.25, 5, 10, 10.25 *)
Radii4 == {1, 2, 3, 4, 5, 20, 40, 41}

(* get_main_buffer_blur up to line 342 *)
get_main_buffer_blur_dst(dst, passes, radius4) ==
    /\ ~panicked
    /\ last' = [op |-> "get_main_buffer_blur", dst |-> dst,
                passes |-> passes, radius4 |-> radius4,
                dst_expanded |-> dst_expanded(dst, passes, radius4),
                fresh |-> TRUE]
    /\ UNCHANGED <<fx, blur, nextId, panicked, otherVars>>

InitDamage == InitWith({Config(TRUE, 1, 5)})

NextDamage ==
    \E dst \in DstRects, passes \in 1..MaxPasses, radius4 \in Radii4 :
       get_main_buffer_blur_dst(dst, passes, radius4)

SpecDamage == InitDamage /\ [][NextDamage]_vars

----------------------------------------------------------------------------
(* SpecOpaque: the opaque region of an element, as a function of its four  *)
(* corner radii, its size, its variant and the scale                       *)

(* Radii of a corner *)
CornerRadii == {0, 4, 8}

(* A surface of 200x100 at scale 2 with every combination of corner radii  *)
OpaqueArgs ==
    {Args(Rect(10, 20, 200, 100),
          [top_left |-> tl, top_right |-> tr, bottom_right |-> br,
           bottom_left |-> bl],
          2, Rect(10, 20, 200, 100), Point(10, 20), FALSE) :
        tl \in CornerRadii, bl \in CornerRadii,
        tr \in {0, 8}, br \in {0, 8}}

(* The damage tracker asks the element the last render call has returned   *)
(* for its opaque regions, at the scale of the output                      *)
element_opaque_regions ==
    /\ ~panicked
    /\ IsSome(blur.inner)
    /\ LET elem == Unwrap(blur.inner)
       IN  last' = [op |-> "opaque_regions", elem |-> elem,
                    scale |-> elem.scale,
                    regions |-> opaque_regions(elem, elem.scale),
                    fresh |-> TRUE]
    /\ UNCHANGED <<fx, blur, nextId, panicked, otherVars>>

NextOpaque ==
    \/ \E a \in OpaqueArgs : render(a, FALSE)
    \/ element_opaque_regions

SpecOpaque == InitBlur /\ [][NextOpaque]_vars

----------------------------------------------------------------------------
(* SpecDnd: drags of every source over the targets, until the grab ends    *)

FocusInputs == {None} \cup {Some(f) : f \in Focuses}

NextDnd ==
    \/ \E source \in Sources : new_pointer(source)
    \/ \E focus \in FocusInputs, alive \in BOOLEAN, offered \in BOOLEAN :
          motion(focus, alive, offered)
    \/ \E v \in BOOLEAN : offer_validated(v)
    \/ \E pressed_is_empty \in BOOLEAN : button(pressed_is_empty)
    \/ unset

InitDnd == InitWith({Config(TRUE, 1, 5)})

SpecDnd == InitDnd /\ [][NextDnd]_vars

----------------------------------------------------------------------------
(* SpecLayout: windows of several widths are added, and the window of the  *)
(* active column goes in and out of fullscreen                             *)

NextLayout ==
    \/ \E width \in WindowWidths : AddWindow(width)
    \/ FullscreenWindow
    \/ Communicate
    \/ CompleteAnimations

InitLayout == InitWith({Config(TRUE, 1, 5)})

SpecLayout == InitLayout /\ [][NextLayout]_vars

----------------------------------------------------------------------------
(* SpecReinit: the cached element of one Blur while the buffers of its     *)
(* output are made anew, for another mode or transform or the same ones    *)

ReinitArgs ==
    {Args(Rect(0, 0, 200, 100), CornerRadius(0), 1, geo, Point(0, 0),
          true_blur) :
        geo \in {Rect(0, 0, 200, 100), Rect(10, 20, 300, 100)},
        true_blur \in BOOLEAN}

NextReinit ==
    \/ Tick(DEFAULT_BLUR_RERENDER_INTERVAL + 1)
    \/ \E t \in {"Normal", "_90"}, mode \in ModeSizes, k \in 0..1 :
          update_for_output(t, mode, k)
    \/ \E a \in ReinitArgs : render(a, FALSE)
    \/ draw(NoFail)

SpecReinit == InitBlur /\ [][NextReinit]_vars

----------------------------------------------------------------------------
(* SpecTimer: the timer of one true-blur element through draws that        *)
(* succeed or fail, render calls that move the surface, and 50 ms steps of *)
(* the clock                                                               *)

TimerFailPoints ==
    {NoFail, [at |-> "pass", k |-> 1], [at |-> "render_texture", k |-> 0]}

NextTimer ==
    \/ \E d \in TickSteps : Tick(d)
    \/ \E a \in ReinitArgs : render(a, FALSE)
    \/ \E fail \in TimerFailPoints : draw(fail)

SpecTimer == InitBlur /\ [][NextTimer]_vars

----------------------------------------------------------------------------
(* SpecTitle: one TitleTexture through every change of its configuration   *)

NextTitle ==
    \/ \E title \in Titles, scale \in TitleScales, max_size \in MaxSizes,
          font_size \in FontSizes :
          TitleTexture_new(title, scale, max_size, font_size)
    \/ \E new_title \in Option(Titles), new_scale \in Option(TitleScales),
          new_max_size \in Option(MaxSizes),
          new_font_size \in Option(FontSizes) :
          TitleTexture_update_config(new_title, new_scale, new_max_size,
                                     new_font_size)
    \/ \E fail \in BOOLEAN : TitleTexture_get(fail)

InitTitle == InitWith({Config(TRUE, 1, 5)})

SpecTitle == InitTitle /\ [][NextTitle]_vars

----------------------------------------------------------------------------
(* SpecRotate: one surface with fixed geometry whose blur is switched on   *)
(* and off by its rules while the output changes to every transform        *)

NextRotate ==
    \/ \E t \in Transforms :
          update_for_output(t, [w |-> 1920, h |-> 1080], 0)
    \/ \E is_active \in BOOLEAN : update_render_elements(is_active)
    \/ \E true_blur \in BOOLEAN, allocFail \in BOOLEAN :
          render([FixedArgs EXCEPT !.true_blur = true_blur], allocFail)

SpecRotate == InitBlur /\ [][NextRotate]_vars

----------------------------------------------------------------------------
(* SpecKdeBlur: one client that creates blur objects for two surfaces and  *)
(* sends every request on them and on the manager                          *)

NextKdeBlur ==
    \/ \E request \in ManagerRequests : OrgKdeKwinBlurManager_request(request)
    \/ \E id \in 1..MaxBlurObjects, request \in BlurRequests :
          OrgKdeKwinBlur_request(id, request)

SpecKdeBlur == InitDraw /\ [][NextKdeBlur]_vars

----------------------------------------------------------------------------
(* SpecTabs: the tab indicator of a column with every number of tabs, in   *)
(* a build with and without overflow checks                                *)

NextTabs ==
    \/ \E tab_count \in 0..MaxTabs, enabled \in BOOLEAN, off \in BOOLEAN,
          hide_when_single_tab \in BOOLEAN, side \in AreaWidths,
          gaps_between \in TabGaps, overflow_checks \in BOOLEAN :
          TabIndicator_update_render_elements(
              tab_count, enabled, off, hide_when_single_tab, side,
              gaps_between, overflow_checks)
    \/ \E tab_count \in 0..MaxTabs, point_x \in PointXs, off \in BOOLEAN,
          hide_when_single_tab \in BOOLEAN, side \in AreaWidths,
          gaps_between \in TabGaps, overflow_checks \in BOOLEAN :
          TabIndicator_hit(tab_count, point_x, off, hide_when_single_tab,
                           side, gaps_between, overflow_checks)

SpecTabs == InitDraw /\ [][NextTabs]_vars

----------------------------------------------------------------------------
(* SpecFrames: one output whose optimized buffer is refreshed frame after  *)
(* frame for ever, without errors, while time passes and damage marks the  *)
(* buffers dirty.  Line 291 counts with wrapping_add: the counter of the   *)
(* model wraps after MaxGeneration as the u64 does after u64::MAX, so the  *)
(* calls never run out.                                                    *)

wrapping_generation(f) ==
    [f EXCEPT !.optimized_blur_generation = @ % (MaxGeneration + 1)]

update_optimized_blur_buffer_wrapping(passes, fps) ==
    /\ ~panicked
    /\ IsSome(fx)
    /\ LET f == Unwrap(fx)
           c == ThrottleCheck(f, fps)
           m == IF c.ret
                THEN [Run(c.f) EXCEPT !.result = "ok"]
                ELSE Refresh(c.f, passes, fps, NoFail)
       IN  /\ fx' = Some(wrapping_generation(m.f))
           /\ panicked' = (m.result = "panic")
           /\ last' = [op |-> "update_optimized_blur_buffer",
                       result |-> m.result, throttled |-> c.ret,
                       log |-> m.log, passes |-> passes, fps |-> fps,
                       fail |-> NoFail,
                       current_buffer |-> f.current_buffer,
                       since |-> SinceWork(last, fps),
                       after_dirty |-> AfterDirty(last),
                       ago |-> 0, fresh |-> TRUE]
    /\ UNCHANGED <<blur, nextId, otherVars>>

(* A frame: the buffer is refreshed at one of the frame rates *)
Frame == \E fps \in FpsChoices : update_optimized_blur_buffer_wrapping(1, fps)

(* Time advances *)
Clock == \E d \in TickSteps : Tick(d)

NextFrames ==
    \/ Clock
    \/ Frame
    \/ set_dirty

(* The compositor draws frame after frame and the clock does not stop *)
SpecFrames ==
    InitBlur /\ [][NextFrames]_vars /\ WF_vars(Clock) /\ WF_vars(Frame)

----------------------------------------------------------------------------
(* Properties of update_optimized_blur_buffer and of the pass loops *)

(* The step is a call of update_optimized_blur_buffer *)
UpdateCalled ==
    last'.op = "update_optimized_blur_buffer" /\ last'.fresh

(* The step is a call that passed the throttle and returned Ok *)
UpdateDone ==
    UpdateCalled /\ ~last'.throttled /\ last'.result = "ok"

Events(log, e) == {i \in DOMAIN log : log[i].e = e}

(* C1 as the spec states it: a full refresh with passes = N >= 1 makes     *)
(* exactly 2N swaps and leaves current_buffer at the value it had before   *)
(* the call.                                                               *)
C1_CurrentBufferRestored ==
    [][UpdateDone /\ last'.passes >= 1 =>
          /\ Cardinality(Events(last'.log, "swap")) = 2 * last'.passes
          /\ Unwrap(fx').current_buffer = Unwrap(fx).current_buffer]_vars

(* C1, amended: a full refresh with passes = N >= 1 makes exactly 2N swaps *)
(* and leaves current_buffer at Normal, the value the call itself gives it *)
(* before its first pass (the first pass samples effects), whatever the    *)
(* value before the call was.                                              *)
C1_SwapsAndNormal ==
    [][UpdateDone /\ last'.passes >= 1 =>
          /\ Cardinality(Events(last'.log, "swap")) = 2 * last'.passes
          /\ Cardinality(Events(last'.log, "pass")) = 2 * last'.passes
          /\ Unwrap(fx').current_buffer = "Normal"
          /\ \E i \in Events(last'.log, "pass") :
                /\ \A j \in Events(last'.log, "pass") : i <= j
                /\ last'.log[i].sample = Unwrap(fx).effects.id]_vars

(* A full refresh with the most passes has returned that found the roles   *)
(* swapped (an earlier refresh or draw failed after an odd number of       *)
(* passes).                                                                *)
C1_Witness ==
    /\ last.op = "update_optimized_blur_buffer"
    /\ last.fresh /\ ~last.throttled /\ last.result = "ok"
    /\ last.passes = MaxPasses
    /\ Cardinality(Events(last.log, "swap")) = 2 * MaxPasses
    /\ last.current_buffer = "Swapped"
    /\ Unwrap(fx).current_buffer = "Normal"

(* The passes of a log are each followed by exactly one swap, no swap      *)
(* stands alone, and each pass samples the texture the pass before it      *)
(* rendered to.                                                            *)
PassesSwap(log) ==
    /\ \A i \in Events(log, "pass") :
          /\ i + 1 \in Events(log, "swap")
          /\ log[i].sample # log[i].render
          /\ i + 2 \in Events(log, "pass") => log[i + 2].sample = log[i].render
    /\ \A i \in Events(log, "swap") : i - 1 \in Events(log, "pass")

(* C2: exactly one of effects and effects_swapped is the sample texture    *)
(* and the other the render texture: buffers() is (effects,                *)
(* effects_swapped) when current_buffer is Normal and the reverse when     *)
(* Swapped, never one texture twice; and in the batched and the real-time  *)
(* loop every pass is followed by exactly one swap.                        *)
C2_SampleAndRender ==
    /\ IsSome(fx) =>
          LET f == Unwrap(fx) IN
          /\ f.current_buffer \in {"Normal", "Swapped"}
          /\ f.current_buffer = "Normal" =>
                buffers(f) = <<f.effects, f.effects_swapped>>
          /\ f.current_buffer = "Swapped" =>
                buffers(f) = <<f.effects_swapped, f.effects>>
          /\ buffers(f)[1].id # buffers(f)[2].id
    /\ last.op \in {"update_optimized_blur_buffer", "draw"} =>
          PassesSwap(last.log)

(* A draw has run the real-time loop and failed in its second pass: the    *)
(* roles are left swapped.                                                 *)
C2_Witness ==
    /\ last.op = "draw" /\ last.fresh /\ last.due /\ last.result = "err"
    /\ Cardinality(Events(last.log, "pass")) = 1
    /\ Unwrap(fx).current_buffer = "Swapped"

(* C3: optimized_blur_generation grows by exactly one in each call that    *)
(* completes a full refresh, and stays as it is in a call that is          *)
(* throttled or returns an error.                                          *)
C3_GenerationCounts ==
    [][UpdateCalled =>
          /\ UpdateDone =>
                Unwrap(fx').optimized_blur_generation
                   = Unwrap(fx).optimized_blur_generation + 1
          /\ last'.throttled \/ last'.result = "err" =>
                Unwrap(fx').optimized_blur_generation
                   = Unwrap(fx).optimized_blur_generation]_vars

(* The first refresh after initialization, with the most passes, has made  *)
(* the generation 1.                                                       *)
C3_Witness ==
    /\ last.op = "update_optimized_blur_buffer"
    /\ last.fresh /\ ~last.throttled /\ last.result = "ok"
    /\ last.passes = MaxPasses
    /\ Unwrap(fx).optimized_blur_generation = 1

(* The stored deadline lies in the future at the entry of the call *)
DeadlinePending(f) ==
    /\ IsSome(f.optimized_blur_rerender_at)
    /\ Unwrap(f.optimized_blur_rerender_at) > 0

(* The call does nothing and returns Ok *)
UpdateNoOp ==
    /\ last'.result = "ok"
    /\ last'.log = <<>>
    /\ fx' = fx

(* C4 as the spec states it: whenever the stored deadline has not elapsed  *)
(* at call entry, for every target fps, the call returns Ok, runs no pass  *)
(* and no blit and leaves the buffers (generation, current_buffer, the     *)
(* optimized texture, the deadline) as they were.                          *)
C4_PendingIsNoOp ==
    [][UpdateCalled /\ DeadlinePending(Unwrap(fx)) => UpdateNoOp]_vars

(* C4, amended: the call is a no-op success whenever the stored deadline   *)
(* lies in the future at call entry and, when a target fps F > 0 is given, *)
(* no more than 1/F in the future.  (A deadline further away than 1/F is   *)
(* pulled in to now and the refresh runs.)                                 *)
C4_ThrottledIsNoOp ==
    [][/\ UpdateCalled
       /\ DeadlinePending(Unwrap(fx))
       /\ IsSome(last'.fps) /\ Unwrap(last'.fps) > 0 =>
             Unwrap(Unwrap(fx).optimized_blur_rerender_at)
                <= IntervalOf(Unwrap(last'.fps))
       => UpdateNoOp /\ last'.throttled]_vars

(* A call without a target fps has been throttled. *)
C4_Witness ==
    /\ last.op = "update_optimized_blur_buffer"
    /\ last.fresh /\ last.throttled /\ last.result = "ok"
    /\ last.fps = None
    /\ DeadlinePending(Unwrap(fx))

(* C5: for a target fps F > 0 and two calls of which the first did GPU     *)
(* work, the second does none when it is made less than 1/F after the      *)
(* first, and does GPU work again (is not throttled, and issues commands   *)
(* when nothing fails) when it is made more than 1/F after it.             *)
C5_OncePerInterval ==
    [][/\ UpdateCalled
       /\ last.op = "update_optimized_blur_buffer"
       /\ ~last.throttled /\ last.result # "panic"
       /\ IsSome(last.fps) /\ Unwrap(last.fps) > 0
       /\ last'.fps = last.fps
       => /\ last.ago < IntervalOf(Unwrap(last.fps)) =>
                last'.throttled /\ last'.log = <<>>
          /\ last.ago > IntervalOf(Unwrap(last.fps)) =>
                /\ ~last'.throttled
                /\ last'.result = "ok" => last'.log # <<>>]_vars

(* A second call at 10 fps, more than 100 ms after a first one that did    *)
(* GPU work, has done GPU work again.                                      *)
C5_Witness ==
    /\ last.op = "update_optimized_blur_buffer"
    /\ last.fresh /\ ~last.throttled /\ last.result = "ok"
    /\ last.fps = Some(10)
    /\ IsSome(last.since)
    /\ Unwrap(last.since) > IntervalOf(10)

----------------------------------------------------------------------------
(* Properties of Blur::render *)

(* The step is a call of Blur::render *)
RenderCalled ==
    last'.op = "render" /\ last'.fresh

(* C6: render returns None whenever the config has passes = 0 or radius =  *)
(* 0 or blur is switched off, for every geometry, variant request and      *)
(* cache state, and it leaves the cached element as it is.                 *)
C6_DisabledReturnsNone ==
    [][/\ RenderCalled
       /\ \/ blur.config.passes = 0
          \/ blur.config.radius = 0
          \/ ~blur.config.on
       => last'.ret = None /\ blur' = blur]_vars

(* A render call on a Blur that is switched off and has a cached element   *)
(* has returned None.  (With passes = 0 or radius = 0 there is never a     *)
(* cached element: update_config drops it.)                                *)
C6_Witness ==
    /\ last.op = "render" /\ last.fresh
    /\ last.ret = None
    /\ ~blur.config.on
    /\ blur.config.passes > 0 /\ blur.config.radius > 0
    /\ IsSome(blur.inner)

(* The refresh of the element is due: it is a true-blur element whose      *)
(* deadline has passed or is unset                                         *)
RefreshDue(e) ==
    /\ e.variant.kind = "True"
    /\ \/ IsNone(e.variant.rerender_at)
       \/ Unwrap(e.variant.rerender_at) < 0

(* C7: of two consecutive render calls (nothing but the clock and draw     *)
(* between them) with identical arguments and config that both return an   *)
(* element, the second returns the commit the first returned, unless the   *)
(* refresh of the element has become due.                                  *)
C7_RepeatKeepsCommit ==
    [][/\ RenderCalled
       /\ IsSome(PrevRender(last))
       /\ Unwrap(PrevRender(last)).args = last'.args
       /\ IsSome(Unwrap(PrevRender(last)).ret)
       /\ IsSome(last'.ret)
       /\ IsSome(blur.inner) /\ ~RefreshDue(Unwrap(blur.inner))
       => Unwrap(last'.ret).commit
             = Unwrap(Unwrap(PrevRender(last)).ret).commit]_vars

(* One of the five values the call supplies differs from the cached one *)
Differs(e, a) ==
    \/ e.sample_area # a.sample_area
    \/ e.geometry # a.geometry
    \/ e.scale # a.scale
    \/ e.corner_radius # a.corner_radius
    \/ e.render_loc # a.render_loc

(* C8 as the spec states it: a render call on a cached element that        *)
(* supplies a sample_area, geometry, scale, corner_radius, render_loc or    *)
(* variant kind that differs from the cached one returns a commit          *)
(* strictly greater than the cached commit.                                *)
C8_ChangeDamages ==
    [][/\ RenderCalled
       /\ IsSome(blur.inner) /\ IsSome(last'.ret)
       /\ \/ Differs(Unwrap(blur.inner), last'.args)
          \/ last'.args.true_blur
                # (Unwrap(blur.inner).variant.kind = "True")
       => Unwrap(last'.ret).commit > Unwrap(blur.inner).commit]_vars

(* C8, amended: the variant kind that counts is the one asked for after    *)
(* true blur has been refused on an output whose transform is not Normal   *)
(* or Flipped180.                                                          *)
C8_EffectiveChangeDamages ==
    [][/\ RenderCalled
       /\ IsSome(blur.inner) /\ IsSome(last'.ret)
       /\ \/ Differs(Unwrap(blur.inner), last'.args)
          \/ (/\ last'.args.true_blur
              /\ Unwrap(fx).transform \in {"Normal", "Flipped180"})
                # (Unwrap(blur.inner).variant.kind = "True")
       => Unwrap(last'.ret).commit > Unwrap(blur.inner).commit]_vars

(* A render call has found a cached element at another render_loc and has  *)
(* returned it with a greater commit.                                      *)
C8_Witness ==
    /\ last.op = "render" /\ last.fresh
    /\ IsSome(last.cached) /\ IsSome(last.ret)
    /\ Unwrap(last.cached).kind = Unwrap(last.ret).variant.kind
    /\ last.args.render_loc = Point(10, 20)
    /\ last.args.sample_area = Rect(0, 0, 200, 100)
    /\ Unwrap(last.ret).commit = Unwrap(last.cached).commit + 1

(* C9: a render call that switches the cached element between Optimized    *)
(* and TrueBlur increases its commit, also when the five values are        *)
(* unchanged.                                                              *)
C9_SwitchDamages ==
    [][/\ RenderCalled
       /\ IsSome(blur.inner) /\ IsSome(blur'.inner)
       /\ Unwrap(blur'.inner).variant.kind # Unwrap(blur.inner).variant.kind
       => /\ Unwrap(blur'.inner).commit > Unwrap(blur.inner).commit
          /\ Unwrap(blur'.inner).id = Unwrap(blur.inner).id]_vars

(* A render call with the values of the cached element has switched it     *)
(* from TrueBlur to Optimized and has added one to its commit.             *)
C9_Witness ==
    /\ last.op = "render" /\ last.fresh
    /\ IsSome(last.cached) /\ IsSome(last.ret)
    /\ Unwrap(last.cached).kind = "True"
    /\ Unwrap(last.ret).variant.kind = "Optimized"
    /\ Unwrap(last.ret).commit = Unwrap(last.cached).commit + 1

(* C10: on an output whose stored transform is a 90 or 270 degree          *)
(* rotation a render call that asks for true blur returns no TrueBlur      *)
(* element: a new element is made as Optimized and a cached TrueBlur       *)
(* element is switched to Optimized.                                       *)
C10_NoTrueBlurWhenRotated ==
    [][/\ RenderCalled
       /\ Unwrap(fx).transform \in {"_90", "_270"}
       /\ last'.args.true_blur
       => /\ IsSome(last'.ret)
          /\ Unwrap(last'.ret).variant.kind = "Optimized"
          /\ blur'.inner = last'.ret]_vars

(* A render call that asked for true blur on an output turned by 270       *)
(* degrees has found a TrueBlur element cached and has returned it as      *)
(* Optimized.                                                              *)
C10_Witness ==
    /\ last.op = "render" /\ last.fresh
    /\ last.args.true_blur
    /\ Unwrap(fx).transform = "_270"
    /\ IsSome(last.cached) /\ Unwrap(last.cached).kind = "True"
    /\ IsSome(last.ret) /\ Unwrap(last.ret).variant.kind = "Optimized"

----------------------------------------------------------------------------
(* Properties of the region of the real-time blur *)

(* The margins of the rectangle outer around the rectangle inner:          *)
(* left, top, right, bottom                                                *)
Margins(outer, inner) ==
    <<inner.x - outer.x, inner.y - outer.y,
      (outer.x + outer.w) - (inner.x + inner.w),
      (outer.y + outer.h) - (inner.y + inner.h)>>

----------------------------------------------------------------------------
(* Properties of set_dirty *)

(* The step is a call of set_dirty *)
SetDirtyCalled ==
    last'.op = "set_dirty" /\ last'.fresh

(* The Instant lies in the future *)
InFuture(at) == IsSome(at) /\ Unwrap(at) > 0

C13_DirtyKeepsDeadline ==
    [][/\ SetDirtyCalled
       /\ IsSome(fx) => IsSome(Unwrap(fx).optimized_blur_rerender_at)
       => fx' = fx /\ blur' = blur /\ panicked' = panicked]_vars

(* set_dirty has been called with a deadline 100 ms ahead, and the         *)
(* deadline is still 100 ms ahead.                                         *)
C13_Witness ==
    /\ last.op = "set_dirty" /\ last.fresh
    /\ last.some /\ last.at = Some(100)
    /\ Unwrap(fx).optimized_blur_rerender_at = Some(100)

----------------------------------------------------------------------------
(* Properties of init_for_output and update_for_output *)

(* The step is a call of init_for_output or of update_for_output *)
OutputCalled(op) ==
    last'.op = op /\ last'.fresh

(* C14: after init_for_output, and in the same way after every successful  *)
(* update_for_output of an output that has buffers, the buffers have       *)
(* current_buffer = Normal, generation = 0, three different textures of    *)
(* one size, the mode size with its axes swapped when the transform turns  *)
(* by 90 or 270 degrees, and a deadline 150 ms ahead.                      *)
C14_FreshBuffers ==
    [][/\ OutputCalled("init_for_output") \/ OutputCalled("update_for_output")
       /\ last'.result = "ok"
       /\ IsSome(fx')
       => LET f == Unwrap(fx')
              turned == last'.transform
                           \in {"_90", "_270", "Flipped90", "Flipped270"}
              w == IF turned THEN last'.mode.h ELSE last'.mode.w
              h == IF turned THEN last'.mode.w ELSE last'.mode.h
          IN  /\ f.current_buffer = "Normal"
              /\ f.optimized_blur_generation = 0
              /\ \A t \in {f.optimized_blur, f.effects, f.effects_swapped} :
                    t.w = w /\ t.h = h
              /\ Cardinality(FxTex(f)) = 3
              /\ f.output_size = [w |-> w, h |-> h]
              /\ f.transform = last'.transform
              /\ f.optimized_blur_rerender_at
                    = Some(DEFAULT_BLUR_RERENDER_INTERVAL)]_vars

(* update_for_output has remade the buffers of an output for the 1280x720  *)
(* mode, flipped and turned by 270 degrees.                                *)
C14_Witness ==
    /\ last.op = "update_for_output" /\ last.fresh /\ last.result = "ok"
    /\ last.transform = "Flipped270" /\ last.mode = [w |-> 1280, h |-> 720]
    /\ IsSome(fx)
    /\ Unwrap(fx).effects.w = 720 /\ Unwrap(fx).effects.h = 1280
    /\ Unwrap(fx).optimized_blur_generation = 0

(* C15: when one of the three create_buffer calls of update_for_output     *)
(* fails, the call returns the error and the buffers of the output are     *)
(* left as they were: textures, output_size, transform, generation,        *)
(* current_buffer and deadline.                                            *)
C15_AllocFailureKeepsBuffers ==
    [][/\ OutputCalled("update_for_output")
       /\ IsSome(fx)
       /\ last'.allocFail # 0
       => /\ last'.result = "err"
          /\ ~panicked'
          /\ fx' = fx]_vars

(* The third create_buffer of an update_for_output for another mode and    *)
(* transform has failed on buffers that had been refreshed.                *)
C15_Witness ==
    /\ last.op = "update_for_output" /\ last.fresh /\ last.result = "err"
    /\ last.allocFail = 3
    /\ last.transform = "_90" /\ last.mode = [w |-> 1280, h |-> 720]
    /\ IsSome(fx)
    /\ Unwrap(fx).transform = "Normal"
    /\ Unwrap(fx).output_size = [w |-> 1920, h |-> 1080]
    /\ Unwrap(fx).optimized_blur_generation = 1

----------------------------------------------------------------------------
(* Properties of the generation *)

(* C19 as the spec states it: over every sequence of init_for_output,     *)
(* update_for_output, set_dirty and update_optimized_blur_buffer the       *)
(* generation of the buffers of an output never decreases.                 *)
C19_GenerationMonotonic ==
    [][IsSome(fx) /\ IsSome(fx') =>
          Unwrap(fx').optimized_blur_generation
             >= Unwrap(fx).optimized_blur_generation]_vars

(* C19, amended: the generation never decreases in set_dirty and in        *)
(* update_optimized_blur_buffer; a successful update_for_output of an      *)
(* output that has buffers sets it back to 0.                              *)
C19_MonotonicUntilRemade ==
    [][IsSome(fx) /\ IsSome(fx') =>
          IF OutputCalled("update_for_output") /\ last'.result = "ok"
          THEN Unwrap(fx').optimized_blur_generation = 0
          ELSE Unwrap(fx').optimized_blur_generation
                  >= Unwrap(fx).optimized_blur_generation]_vars

(* A refresh has failed in its blit on buffers that had been refreshed     *)
(* before: the generation is still 1.                                      *)
C19_Witness ==
    /\ last.op = "update_optimized_blur_buffer"
    /\ last.fresh /\ last.result = "err" /\ last.fail.at = "blit"
    /\ Unwrap(fx).optimized_blur_generation = 1

----------------------------------------------------------------------------
(* Properties of the failures of update_optimized_blur_buffer *)

(* C16: a bind failure at any step of update_optimized_blur_buffer (the    *)
(* bind of effects, a blur pass, the binds of the final blit, the blit)    *)
(* is returned to the caller as an error and is no crash; the optimized    *)
(* texture is not written and the generation keeps its value.              *)
C16_BindFailureIsError ==
    [][/\ UpdateCalled
       /\ last'.fail.at \in {"bind_effects", "pass", "bind_blit", "blit"}
       => /\ last'.result = "err"
          /\ ~panicked'
          /\ Events(last'.log, "blit") = {}
          /\ Unwrap(fx').optimized_blur_generation
                = Unwrap(fx).optimized_blur_generation]_vars

----------------------------------------------------------------------------
(* Properties of the opaque region *)

(* C18: an Optimized element reports as opaque the rectangle that is its   *)
(* geometry inset on every side by the largest of its four scaled corner   *)
(* radii, for every combination of the four radii.                         *)
C18_InsetByLargestRadius ==
    /\ last.op = "opaque_regions"
    /\ last.elem.variant.kind = "Optimized"
    /\ IsNone(last.elem.alpha_tex)
    => LET geo == geometry(last.elem, last.scale)
           c == last.elem.corner_radius
           L == Max({c.top_left, c.top_right, c.bottom_right,
                     c.bottom_left}) * last.scale
       IN  /\ Cardinality(last.regions) = 1
           /\ \A r \in last.regions :
                 Margins(Rect(0, 0, geo.w, geo.h), r) = <<L, L, L, L>>

----------------------------------------------------------------------------
(* Properties of the identity of the element *)

(* C20 as the spec states it: over every sequence of render, set_alpha_tex *)
(* and clear_alpha_tex calls on one Blur with an unchanged config every    *)
(* element returned has the same Id, and the commit seen for that Id never *)
(* decreases.                                                              *)
C20_SameIdAlways ==
    [][RenderCalled /\ IsSome(last'.ret) /\ IsSome(Returned(last)) =>
          /\ Unwrap(last'.ret).id = Unwrap(Returned(last)).id
          /\ Unwrap(last'.ret).commit >= Unwrap(Returned(last)).commit]_vars

(* C20, amended: the element returned has the Id of the one returned       *)
(* before it, and a commit that is not smaller, as long as set_alpha_tex   *)
(* has not been called in between; after a set_alpha_tex call the next     *)
(* element returned has a new Id and the commit 0.                         *)
C20_SameIdUntilAlphaTexSet ==
    [][RenderCalled /\ IsSome(last'.ret) /\ IsSome(Returned(last)) =>
          IF Unwrap(Returned(last)).dropped
          THEN /\ Unwrap(last'.ret).id # Unwrap(Returned(last)).id
               /\ Unwrap(last'.ret).commit = 0
          ELSE /\ Unwrap(last'.ret).id = Unwrap(Returned(last)).id
               /\ Unwrap(last'.ret).commit
                     >= Unwrap(Returned(last)).commit]_vars

(* After an element with Id 1 had been returned and set_alpha_tex had been  *)
(* called, a render call has found no element cached and has returned a    *)
(* new one, with the Id 2, the commit 0 and the alpha texture.             *)
C20_Witness ==
    /\ last.op = "render" /\ last.fresh
    /\ IsSome(last.ret) /\ IsNone(last.cached)
    /\ Unwrap(last.ret).id = 2
    /\ Unwrap(last.ret).commit = 0
    /\ IsSome(blur.alpha_tex)
    /\ Unwrap(last.ret).alpha_tex = blur.alpha_tex

----------------------------------------------------------------------------
(* Properties of the alpha texture of a layer surface *)

(* The step is a call of MappedLayer::render *)
LayerRenderCalled ==
    last'.op = "MappedLayer::render" /\ last'.fresh

(* C17: with ignore_alpha > 0 the alpha texture of a layer surface is      *)
(* rendered again only in a render call whose CommitTracker differs from   *)
(* the stored one; maybe_update_commit_tracker returns true exactly when   *)
(* the tracker it is given differs from the stored one, stores it, and     *)
(* returns false when it is called again with the same tracker, so that a  *)
(* frame without a new commit of the surface never renders the texture     *)
(* again.                                                                  *)
C17_RegeneratedOnCommitOnly ==
    [][LayerRenderCalled =>
          /\ last'.regenerated =>
                /\ last'.ignore_alpha > 0
                /\ last'.tracker # blur.commit_tracker
          /\ last'.asked =>
                /\ last'.differs = (last'.tracker # blur.commit_tracker)
                /\ blur'.commit_tracker = last'.tracker
          /\ ~last'.asked => blur'.commit_tracker = blur.commit_tracker
          /\ /\ last.op = "MappedLayer::render" /\ last.asked
             /\ last'.tracker = last.tracker
             => ~last'.differs /\ ~last'.regenerated]_vars

(* The second commit of a surface has been seen by a render call with      *)
(* ignore_alpha > 0, which has rendered the alpha texture again and has    *)
(* returned an element that has it.                                        *)
C17_Witness ==
    /\ last.op = "MappedLayer::render" /\ last.fresh
    /\ last.ignore_alpha > 0
    /\ last.regenerated /\ last.differs
    /\ last.tracker = {<<"surface", 1>>}
    /\ blur.commit_tracker = {<<"surface", 1>>}
    /\ IsSome(blur.alpha_tex)
    /\ IsSome(last.ret) /\ Unwrap(last.ret).alpha_tex = blur.alpha_tex
    /\ Unwrap(last.ret).id = 2

----------------------------------------------------------------------------
(* Claims on the end of a drag and drop (SpecDnd) *)

UnsetCalled == last.op = "unset"

(* How many times the last call made the call named *)
Calls(name) ==
    Cardinality({i \in 1..Len(last.log) : last.log[i].call = name})

(* The flags DndGrabHandler::dropped was called with *)
DroppedWith ==
    {last.log[i].arg : i \in {j \in 1..Len(last.log) :
                                last.log[j].call = "DndGrabHandler::dropped"}}

TargetClient ==
    IF IsSome(last.current_focus) THEN Unwrap(last.current_focus).client
    ELSE None

SourceClient ==
    IF last.data_source.wl THEN last.data_source.client ELSE None

(* The grab ended over a surface of the client that owns the wl_data_source *)
SameClientDrop ==
    UnsetCalled /\ IsSome(TargetClient) /\ TargetClient = SourceClient

OfferValidated ==
    IsSome(last.offer_data) /\ Unwrap(last.offer_data).validated

(* C21: when the grab ends over a surface of the client that owns the      *)
(* wl_data_source, the drop is not validated whatever the offer reports:   *)
(* the offer (if there is one) is disabled and not dropped, the source is  *)
(* cancelled and gets no drop_performed, and dropped is called with        *)
(* validated = false.                                                      *)
C21_SameClientDropNotValidated ==
    SameClientDrop =>
        /\ Calls("OfferData::drop") = 0
        /\ Calls("OfferData::disable")
              = (IF IsSome(last.offer_data) THEN 1 ELSE 0)
        /\ Calls("Source::cancel") = 1
        /\ Calls("Source::drop_performed") = 0
        /\ DroppedWith = {Some(FALSE)}

(* A same-client drop whose offer reports validated *)
C21_Witness ==
    SameClientDrop /\ OfferValidated /\ Calls("OfferData::disable") = 1

(* C22: when the grab ends otherwise (another client's surface, no focus,  *)
(* a focus or source without client, or a source that is no                *)
(* wl_data_source), validated is "an offer exists and reports validated":  *)
(* if so the offer gets drop and the source drop_performed, else the offer *)
(* (if there is one) is disabled and the source cancelled.                 *)
C22_CrossClientDropValidation ==
    (UnsetCalled /\ ~SameClientDrop) =>
        /\ DroppedWith = {Some(OfferValidated)}
        /\ OfferValidated =>
              /\ Calls("OfferData::drop") = 1
              /\ Calls("OfferData::disable") = 0
              /\ Calls("Source::drop_performed") = 1
              /\ Calls("Source::cancel") = 0
        /\ ~OfferValidated =>
              /\ Calls("OfferData::drop") = 0
              /\ Calls("OfferData::disable")
                    = (IF IsSome(last.offer_data) THEN 1 ELSE 0)
              /\ Calls("Source::drop_performed") = 0
              /\ Calls("Source::cancel") = 1

(* A validated drop of client c1's source on a surface of client c2 *)
C22_Witness ==
    /\ UnsetCalled
    /\ SourceClient = Some("c1")
    /\ TargetClient = Some("c2")
    /\ OfferValidated
    /\ Calls("Source::drop_performed") = 1

----------------------------------------------------------------------------
(* Claims on the scrolling view (SpecLayout) *)

AnimationsCompleted ==
    last.op = "CompleteAnimations" /\ ~layout.pending_fullscreen

C23_FullscreenWitness ==
    /\ AnimationsCompleted
    /\ layout.is_fullscreen
    /\ layout.columns = <<100, 100>>
    /\ last.before = Some(-16)
    /\ view_pos(layout) = 116

----------------------------------------------------------------------------
(* Claims on the cached element and its textures (SpecBlur) *)

(* The render call of this step finds a cached element, returns an         *)
(* element, and one of the five compared inputs differs from the cached    *)
(* value                                                                   *)
RenderChangedInput ==
    /\ RenderCalled
    /\ IsSome(blur.inner)
    /\ IsSome(last'.ret)
    /\ LET inner == Unwrap(blur.inner)
           a == last'.args
       IN  \/ inner.sample_area # a.sample_area
           \/ inner.geometry # a.geometry
           \/ inner.scale # a.scale
           \/ inner.corner_radius # a.corner_radius
           \/ inner.render_loc # a.render_loc

(* C24: after a render call on a cached element in which an input          *)
(* changed, the cached sample_area, geometry, scale, corner_radius and     *)
(* render_loc are the incoming ones, and the uniforms of the returned      *)
(* element are those computed from the incoming values.                    *)
C24_ChangedInputsAreCached ==
    [][RenderChangedInput =>
          LET e == Unwrap(blur'.inner)
              a == last'.args
              incoming == [e EXCEPT !.sample_area = a.sample_area,
                                    !.geometry = a.geometry,
                                    !.scale = a.scale,
                                    !.corner_radius = a.corner_radius,
                                    !.render_loc = a.render_loc]
          IN  /\ e = incoming
              /\ Unwrap(last'.ret).uniforms
                    = update_uniforms(incoming, Unwrap(fx),
                                      blur.config).uniforms]_vars

(* The render call of this step is the first one after a successful       *)
(* update_for_output, and it finds a cached element and returns one       *)
RenderAfterReinit ==
    /\ RenderCalled
    /\ last.op = "update_for_output" /\ last.result = "ok"
    /\ IsSome(blur.inner)
    /\ IsSome(last'.ret)

(* The element holds no texture of an earlier set of buffers: an          *)
(* Optimized one the optimized_blur of the buffers f, a TrueBlur one a    *)
(* private texture of the size of their effects texture                   *)
NoStaleTexture(e, f) ==
    IF e.variant.kind = "Optimized"
    THEN e.variant.texture = f.optimized_blur
    ELSE /\ e.variant.texture.w = f.effects.w
         /\ e.variant.texture.h = f.effects.h

(* C25: the first render call after a successful update_for_output        *)
(* returns, for a cached element of either variant, an element that holds *)
(* no texture of the previous buffers and whose commit has grown.         *)
C25_ReinitReplacesTextures ==
    [][RenderAfterReinit =>
          /\ NoStaleTexture(Unwrap(last'.ret), Unwrap(fx))
          /\ Unwrap(last'.ret).commit > Unwrap(blur.inner).commit]_vars

(* A TrueBlur element returned with its private texture of 1920x1080      *)
(* after the buffers were made anew for 1280x720                          *)
C25_StaleSize ==
    /\ last.op = "render" /\ last.fresh
    /\ IsSome(last.ret)
    /\ Unwrap(last.ret).variant.kind = "True"
    /\ Unwrap(last.ret).variant.texture.w = 1920
    /\ Unwrap(fx).effects.w = 1280

----------------------------------------------------------------------------
(* Claims on the two pass loops (SpecDraw) *)

(* The last call was a refresh, or a draw, that ran all its passes and     *)
(* copied the result out; N is the number of passes it was asked for       *)
FullUpdate ==
    /\ last.op = "update_optimized_blur_buffer"
    /\ ~last.throttled /\ last.result = "ok"
    /\ last.passes >= 1

FullDraw ==
    /\ last.op = "draw"
    /\ last.due
    /\ Events(last.log, "blit") # {}

DrawPasses == Unwrap(blur.inner).variant.config.passes

IsPassOrSwap(ev) == ev.e \in {"pass", "swap"}

PassLog(log) == SelectSeq(log, IsPassOrSwap)

(* N down passes then N up passes that start at Normal: the k-th pass      *)
(* samples effects when k is odd and effects_swapped when k is even,       *)
(* renders to the other one, and is followed by a swap                     *)
ExpectedPasses(N, f) ==
    [i \in 1..(4 * N) |->
        LET k == (i + 1) \div 2
            shader == IF k <= N THEN "down" ELSE "up"
        IN  IF i % 2 = 0 THEN Ev("swap", shader, 0, 0)
            ELSE IF k % 2 = 1
            THEN Ev("pass", shader, f.effects.id, f.effects_swapped.id)
            ELSE Ev("pass", shader, f.effects_swapped.id, f.effects.id)]

(* C26: the batched and the real-time path run the same passes: for N      *)
(* passes each issues, from current_buffer Normal, N down passes then N up *)
(* passes with the same sample and render textures and a swap after each.  *)
C26_SamePassAlgorithm ==
    /\ FullUpdate =>
          PassLog(last.log) = ExpectedPasses(last.passes, Unwrap(fx))
    /\ FullDraw =>
          PassLog(last.log) = ExpectedPasses(DrawPasses, Unwrap(fx))
    /\ IsSome(fx) =>
          \A N \in 1..MaxPasses :
             LET f == [Unwrap(fx) EXCEPT !.current_buffer = "Normal"]
                 batched == Refresh(f, N, None, NoFail)
                 realtime == get_main_buffer_blur(
                                Run(f), Config(TRUE, N, 5),
                                f.optimized_blur, NoFail)
             IN  PassLog(batched.log) = PassLog(realtime.log)

(* A draw has run MaxPasses down and MaxPasses up passes *)
C26_Witness ==
    /\ FullDraw
    /\ DrawPasses = MaxPasses
    /\ Len(PassLog(last.log)) = 4 * MaxPasses
    /\ PassLog(last.log)[1].shader = "down"
    /\ PassLog(last.log)[4 * MaxPasses].shader = "up"

LastOf(log, e) == log[Max(Events(log, e))]

(* C27: in both paths the texture copied out as the result, effects, is    *)
(* the sample texture after the last swap, the one the last pass rendered  *)
(* to, for every passes >= 1 and whatever the roles were before the call.  *)
C27_ResultIsLastRendered ==
    (FullUpdate \/ FullDraw) =>
        /\ LastOf(last.log, "blit").sample = Unwrap(fx).effects.id
        /\ LastOf(last.log, "blit").sample = buffers(Unwrap(fx))[1].id
        /\ LastOf(last.log, "blit").sample = LastOf(last.log, "pass").render
        /\ Max(Events(last.log, "pass")) < Max(Events(last.log, "blit"))

(* A refresh that found the roles swapped has copied out effects, which    *)
(* its last pass rendered to                                               *)
C27_Witness ==
    /\ FullUpdate
    /\ last.current_buffer = "Swapped"
    /\ LastOf(last.log, "blit").sample = LastOf(last.log, "pass").render
    /\ LastOf(last.log, "blit").sample = Unwrap(fx).effects.id

----------------------------------------------------------------------------
(* Claims on the timer of a true-blur element (SpecTimer) *)

DrawCalled == last'.op = "draw" /\ last'.fresh

(* The timer of the cached true-blur element in the blur b *)
TimerOf(b) == Unwrap(b.inner).variant.rerender_at

TimerDue(b) == IsNone(TimerOf(b)) \/ Unwrap(TimerOf(b)) < 0

(* The commands of a log that work on the buffers or on the private       *)
(* texture                                                                *)
BlurWork(log) ==
    {i \in DOMAIN log :
        log[i].e \in {"blit_in", "pass", "pass_failed", "swap", "blit"}}

(* C28: a draw of a true-blur element runs the passes only when its timer *)
(* is unset or has elapsed, and having run them sets the timer 150 ms     *)
(* ahead; a draw before that issues no pass and no copy and leaves the    *)
(* private texture and the timer as they are; a render call whose         *)
(* geometry differs from the cached one leaves the timer unset.           *)
C28_TrueBlurTimer ==
    [][/\ DrawCalled =>
             /\ BlurWork(last'.log) # {} => TimerDue(blur)
             /\ (TimerDue(blur) /\ Events(last'.log, "blit") # {}) =>
                   TimerOf(blur') = Some(DEFAULT_BLUR_RERENDER_INTERVAL)
             /\ (TimerDue(blur) /\ last'.result = "ok") =>
                   /\ Cardinality(Events(last'.log, "pass"))
                         = 2 * Unwrap(blur.inner).variant.config.passes
                   /\ Events(last'.log, "blit") # {}
             /\ ~TimerDue(blur) =>
                   /\ BlurWork(last'.log) = {}
                   /\ blur' = blur
       /\ (/\ RenderCalled
           /\ IsSome(blur.inner) /\ IsSome(last'.ret)
           /\ Unwrap(blur.inner).variant.kind = "True"
           /\ Unwrap(last'.ret).variant.kind = "True"
           /\ Unwrap(blur.inner).geometry # last'.args.geometry) =>
             /\ IsNone(TimerOf(blur'))
             /\ IsNone(Unwrap(last'.ret).variant.rerender_at)]_vars

(* A draw 50 ms after the draw that set the timer has issued nothing *)
C28_Witness ==
    /\ last.op = "draw" /\ last.fresh
    /\ ~last.due
    /\ BlurWork(last.log) = {}
    /\ TimerOf(blur) = Some(DEFAULT_BLUR_RERENDER_INTERVAL - 50)

(* A render call with another geometry on a cached true-blur element has  *)
(* left its timer unset                                                   *)
C28_ClearedWitness ==
    /\ last.op = "render" /\ last.fresh
    /\ IsSome(last.cached) /\ Unwrap(last.cached).kind = "True"
    /\ IsSome(last.ret)
    /\ Unwrap(last.ret).variant.kind = "True"
    /\ Unwrap(last.ret).geometry = Rect(10, 20, 300, 100)
    /\ Unwrap(last.ret).commit > 1
    /\ IsNone(TimerOf(blur))

----------------------------------------------------------------------------
(* Claims on the TitleTexture (SpecTitle) *)

(* The texture was rendered for the title, scale and font size of t *)
RenderedFor(texture, t) ==
    /\ texture.title = t.title
    /\ texture.scale = t.scale
    /\ texture.font_size = t.font_size

TitleConfigCalled ==
    last'.op = "TitleTexture::update_config" /\ last'.fresh

(* The cached texture of old no longer fits new_max: the wanted size       *)
(* reached the old maximum on an axis that grew, or the texture exceeds    *)
(* the new maximum on an axis                                              *)
NoLongerFits(old, new_max) ==
    LET wanted == pixel_size(old.title, old.scale, old.font_size)
        size == logical_size(Unwrap(old.texture))
    IN  \/ (wanted.w \div old.scale >= old.max_size.w
              /\ new_max.w > old.max_size.w)
        \/ (wanted.h \div old.scale >= old.max_size.h
              /\ new_max.h > old.max_size.h)
        \/ size.w > new_max.w
        \/ size.h > new_max.h

(* C29: a cached texture, and every texture get returns, was rendered for  *)
(* the current title, scale and font size, since update_config drops the   *)
(* texture and the wanted size when one of them changes; when only         *)
(* max_size changes, the texture is dropped exactly when it no longer      *)
(* fits, and a texture that is kept is the one a new rendering would give. *)
C29_TitleTextureCoherent ==
    [][/\ IsSome(title_texture') =>
             LET t == Unwrap(title_texture')
             IN  /\ IsSome(t.texture) =>
                       /\ RenderedFor(Unwrap(t.texture), t)
                       /\ t.wanted_size
                             = Some(pixel_size(t.title, t.scale, t.font_size))
                 /\ IsNone(t.texture) => IsNone(t.wanted_size)
                 /\ (last'.op = "TitleTexture::get" /\ IsSome(last'.ret)) =>
                       /\ RenderedFor(Unwrap(last'.ret), t)
                       /\ last'.ret = t.texture
       /\ TitleConfigCalled =>
             LET old == Unwrap(title_texture)
                 new == Unwrap(title_texture')
             IN  /\ (\/ new.title # old.title
                     \/ new.scale # old.scale
                     \/ new.font_size # old.font_size) =>
                       IsNone(new.texture) /\ IsNone(new.wanted_size)
                 /\ (/\ new.title = old.title
                     /\ new.scale = old.scale
                     /\ new.font_size = old.font_size
                     /\ new.max_size # old.max_size
                     /\ IsSome(old.texture)) =>
                       /\ IsNone(new.texture)
                             <=> NoLongerFits(old, new.max_size)
                       /\ IsSome(new.texture) =>
                             /\ new.texture = old.texture
                             /\ new.wanted_size = old.wanted_size
                             /\ render_title_texture(
                                   new.title, new.scale, new.max_size,
                                   new.font_size, FALSE)
                                = Some([buffer |-> Unwrap(new.texture),
                                        wanted_size |->
                                            Unwrap(new.wanted_size)])]_vars

(* The 20x10 texture of "ab" has been kept when max_size went from 50x20   *)
(* to 30x20                                                                *)
C29_Witness ==
    /\ last.op = "TitleTexture::update_config" /\ last.fresh
    /\ last.max_size = [w |-> 50, h |-> 20]
    /\ last.had_texture
    /\ Unwrap(title_texture).max_size = [w |-> 30, h |-> 20]
    /\ Unwrap(title_texture).title = "ab"
    /\ IsSome(Unwrap(title_texture).texture)
    /\ logical_size(Unwrap(Unwrap(title_texture).texture))
          = [w |-> 20, h |-> 10]

(* The texture of "abcdef", cut to 50 wide, has been dropped when only     *)
(* max_size changed, from 50x20 to 100x20                                  *)
C29_DroppedWitness ==
    /\ last.op = "TitleTexture::update_config" /\ last.fresh
    /\ last.max_size = [w |-> 50, h |-> 20]
    /\ last.had_texture
    /\ IsNone(last.new_title) /\ IsNone(last.new_scale)
    /\ IsNone(last.new_font_size)
    /\ Unwrap(title_texture).title = "abcdef"
    /\ Unwrap(title_texture).max_size = [w |-> 100, h |-> 20]
    /\ IsNone(Unwrap(title_texture).texture)

----------------------------------------------------------------------------
(* Claims on a refresh that fails (Spec) *)

(* C30: when update_optimized_blur_buffer passes the throttle and then     *)
(* returns an error, the refresh deadline is the one the call found, and   *)
(* the next call (nothing but the clock between them) is not throttled.    *)
C30_ErrorKeepsDeadline ==
    [][/\ (/\ UpdateCalled
           /\ ~last'.throttled
           /\ last'.result = "err") =>
             Unwrap(fx').optimized_blur_rerender_at
                = Unwrap(fx).optimized_blur_rerender_at
       /\ (/\ UpdateCalled
           /\ last.op = "update_optimized_blur_buffer"
           /\ ~last.throttled
           /\ last.result = "err") =>
             ~last'.throttled]_vars

(* The call that follows a failed refresh is not throttled *)
C30_RetryNotThrottled ==
    [][(/\ UpdateCalled
        /\ last.op = "update_optimized_blur_buffer"
        /\ ~last.throttled
        /\ last.result = "err") =>
          ~last'.throttled]_vars

----------------------------------------------------------------------------
(* Progress of the optimized buffer *)

(* The call that has just returned rebuilt the optimized texture *)
Rebuilt ==
    /\ last.op = "update_optimized_blur_buffer" /\ last.fresh
    /\ ~last.throttled /\ last.result = "ok"

(* C31: when update_optimized_blur_buffer is called frame after frame      *)
(* while time advances and nothing fails, the optimized texture is         *)
(* rebuilt again and again: after every rebuild there is a later one,      *)
(* whatever the frame rates asked for and however set_dirty calls are      *)
(* interleaved.                                                            *)
C31_RebuiltAgainAndAgain ==
    []<>Rebuilt

(* A rebuild in the frame right after a set_dirty call, when the buffer    *)
(* has been rebuilt before                                                 *)
C31_Witness ==
    /\ Rebuilt /\ last.after_dirty
    /\ Unwrap(fx).optimized_blur_generation = MaxGeneration

(* A frame that was throttled: the deadline lay in the future *)
C31_ThrottledWitness ==
    /\ last.op = "update_optimized_blur_buffer" /\ last.fresh
    /\ last.throttled
    /\ Unwrap(fx).optimized_blur_generation >= 1

----------------------------------------------------------------------------
(* C32: once init_for_output has made the buffers, their refresh deadline  *)
(* is always present, whatever update_for_output, set_dirty and            *)
(* update_optimized_blur_buffer calls follow, and so a call of set_dirty   *)
(* leaves the buffers exactly as they are.                                 *)
C32_DeadlineAlwaysPresent ==
    [][/\ IsSome(fx') => IsSome(Unwrap(fx').optimized_blur_rerender_at)
       /\ SetDirtyCalled => fx' = fx]_vars

(* set_dirty has been called on buffers that were refreshed before and    *)
(* whose deadline had passed: the deadline is still the one that passed.   *)
C32_Witness ==
    /\ last.op = "set_dirty" /\ last.fresh
    /\ last.some /\ last.at = Some(-1)
    /\ Unwrap(fx).optimized_blur_rerender_at = Some(-1)
    /\ Unwrap(fx).optimized_blur_generation >= 1

----------------------------------------------------------------------------
(* Properties of the variant under the transforms of the output *)

(* The transforms under which true blur is drawn *)
Unrotated(f) == f.transform \in {"Normal", "Flipped180"}

IsTrueBlur(o) == IsSome(o) /\ Unwrap(o).variant.kind = "True"

(* C33 as stated: after a render call the element returned, and the        *)
(* element kept in the cache, is a TrueBlur element only when the          *)
(* transform of the output is Normal or Flipped180, and under every other  *)
(* transform a call that asks for true blur returns an Optimized element.  *)
C33_TrueBlurOnlyUnrotated ==
    [][RenderCalled
       => /\ IsTrueBlur(last'.ret) => Unrotated(Unwrap(fx))
          /\ IsTrueBlur(blur'.inner) => Unrotated(Unwrap(fx))
          /\ ~Unrotated(Unwrap(fx)) /\ last'.args.true_blur
             => /\ IsSome(last'.ret)
                /\ Unwrap(last'.ret).variant.kind = "Optimized"]_vars

(* C33, amended: render never returns a TrueBlur element under a           *)
(* transform other than Normal and Flipped180; and while blur is enabled   *)
(* (on, passes > 0, radius > 0) it keeps none in the cache under such a    *)
(* transform, and a call that asks for true blur returns an Optimized      *)
(* element, which is the cached one.  (A disabled blur returns None and    *)
(* leaves the cache as it is, whatever the variant of the cached element.) *)
C33_EnabledTrueBlurOnlyUnrotated ==
    [][RenderCalled
       => /\ IsTrueBlur(last'.ret) => Unrotated(Unwrap(fx))
          /\ ~BlurDisabled(blur.config)
             => /\ IsTrueBlur(blur'.inner) => Unrotated(Unwrap(fx))
                /\ ~Unrotated(Unwrap(fx)) /\ last'.args.true_blur
                   => /\ IsSome(last'.ret)
                      /\ Unwrap(last'.ret).variant.kind = "Optimized"
                      /\ blur'.inner = last'.ret]_vars

(* A render call that asked for true blur on an output turned by 180       *)
(* degrees has found a TrueBlur element cached and has returned it as      *)
(* Optimized.                                                              *)
C33_Witness ==
    /\ last.op = "render" /\ last.fresh
    /\ last.args.true_blur
    /\ Unwrap(fx).transform = "_180"
    /\ IsSome(last.cached) /\ Unwrap(last.cached).kind = "True"
    /\ IsSome(last.ret) /\ Unwrap(last.ret).variant.kind = "Optimized"

(* A render call on a flipped output whose blur is switched off has        *)
(* returned None and has left a TrueBlur element in the cache.             *)
C33_DisabledWitness ==
    /\ last.op = "render" /\ last.fresh
    /\ Unwrap(fx).transform = "Flipped"
    /\ ~blur.config.on
    /\ last.ret = None
    /\ IsTrueBlur(blur.inner)

----------------------------------------------------------------------------
(* C34: the element returned by the first render call after                *)
(* clear_alpha_tex carries no alpha texture, and its alpha_tex and         *)
(* ignore_alpha uniforms are 0, also when the arguments of the call are    *)
(* those of the cached element.                                            *)
C34_ClearedAlphaTexNotRendered ==
    [][/\ RenderCalled
       /\ last.op = "clear_alpha_tex"
       /\ IsSome(last'.ret)
       => /\ Unwrap(last'.ret).alpha_tex = None
          /\ Unwrap(last'.ret).uniforms.alpha_tex = 0
          /\ Unwrap(last'.ret).uniforms.ignore_alpha = 0]_vars

(* The Blur has no alpha texture, and the element its render call has      *)
(* just returned still carries one                                         *)
C34_StaleAlphaTex ==
    /\ last.op = "render" /\ last.fresh
    /\ blur.alpha_tex = None
    /\ IsSome(last.ret)
    /\ IsSome(Unwrap(last.ret).alpha_tex)
    /\ Unwrap(last.ret).uniforms.alpha_tex = 1

----------------------------------------------------------------------------
(* C35: with ignore_alpha > 0, a call of MappedLayer::render that stores a *)
(* new CommitTracker sets or clears the alpha texture in that same call    *)
(* (it renders the texture again and hands the result, or its failure, to  *)
(* the Blur), so that the tracker never stands for a commit whose alpha    *)
(* texture was not rendered.                                               *)
C35_TrackerAdvancesWithAlphaTex ==
    [][/\ LayerRenderCalled
       /\ last'.ignore_alpha > 0
       /\ blur'.commit_tracker # blur.commit_tracker
       => last'.regenerated]_vars

----------------------------------------------------------------------------
(* Claims on the calls of a drag and drop grab (SpecDnd) *)

(* C36: the end of a grab tells the data source exactly once, with either  *)
(* cancel or drop_performed, calls DndGrabHandler::dropped exactly once    *)
(* with validated = "the source got drop_performed", and calls drop on     *)
(* the offer exactly when the source got drop_performed.                   *)
C36_GrabEndNotifiesOnce ==
    UnsetCalled =>
        /\ Calls("Source::cancel") + Calls("Source::drop_performed") = 1
        /\ Calls("DndGrabHandler::dropped") = 1
        /\ DroppedWith = {Some(Calls("Source::drop_performed") = 1)}
        /\ Calls("OfferData::drop") = Calls("Source::drop_performed")

(* The release of the last button has ended a grab whose drop was          *)
(* performed: the offer got drop and dropped was called with true          *)
C36_Witness ==
    /\ UnsetCalled /\ last.by = "button"
    /\ Calls("Source::drop_performed") = 1
    /\ Calls("OfferData::drop") = 1
    /\ DroppedWith = {Some(TRUE)}

(* A grab has ended over no target: the source was cancelled *)
C36_NoTargetWitness ==
    /\ UnsetCalled
    /\ IsNone(last.current_focus)
    /\ Calls("Source::cancel") = 1
    /\ DroppedWith = {Some(FALSE)}

----------------------------------------------------------------------------
(* The DndFocus calls of a handler, replayed: the target that is entered   *)
(* after the calls log[i..], when entered is the target entered before     *)
(* them.  "out of turn" when an enter comes while a target is entered, or  *)
(* a leave, motion or drop goes to a target that is not the entered one.   *)
OutOfTurn == Some([surface |-> "out of turn", client |-> None])

RECURSIVE Replay(_, _, _)
Replay(log, i, entered) ==
    IF i > Len(log) THEN entered
    ELSE LET c == log[i] IN
         IF c.call = "DndFocus::enter"
         THEN IF IsNone(entered) THEN Replay(log, i + 1, c.target)
              ELSE OutOfTurn
         ELSE IF c.call = "DndFocus::leave"
         THEN IF IsSome(entered) /\ c.target = entered
              THEN Replay(log, i + 1, None)
              ELSE OutOfTurn
         ELSE IF c.call \in {"DndFocus::motion", "DndFocus::drop"}
         THEN IF IsSome(entered) /\ c.target = entered
              THEN Replay(log, i + 1, entered)
              ELSE OutOfTurn
         ELSE Replay(log, i + 1, entered)

(* The places of the calls named in the log *)
Places(log, name) == {i \in 1..Len(log) : log[i].call = name}

(* C37: the DndFocus calls of a grab are in turn.  The grab starts with no *)
(* target entered and current_focus None; every motion event and the grab  *)
(* end make their calls in turn, starting from the target current_focus    *)
(* names, and a motion event leaves current_focus naming the target that   *)
(* is then entered: so enter is sent only while no target is entered, the  *)
(* entered target gets leave before another gets enter, and motion goes    *)
(* to the entered target only.  A motion event whose focus is none or      *)
(* another target sends leave to the entered target, and the grab end      *)
(* sends the entered target drop and then exactly one leave, and sends     *)
(* no DndFocus call when no target is entered.                             *)
C37_EnterLeaveAlternate ==
    [][/\ last'.op = "new_pointer"
          => Unwrap(grab').current_focus = None /\ last'.log = <<>>
       /\ last'.op = "motion"
          => /\ Replay(last'.log, 1, Unwrap(grab).current_focus)
                   = Unwrap(grab').current_focus
             /\ /\ IsSome(Unwrap(grab).current_focus)
                /\ last'.focus # Unwrap(grab).current_focus
                => /\ last'.log # <<>>
                   /\ last'.log[1] = Call("DndFocus::leave",
                                          Unwrap(grab).current_focus, None)
       /\ last'.op = "unset"
          => /\ Replay(last'.log, 1, Unwrap(grab).current_focus) = None
             /\ Places(last'.log, "DndFocus::enter") = {}
             /\ Places(last'.log, "DndFocus::motion") = {}
             /\ IF IsSome(Unwrap(grab).current_focus)
                THEN /\ Cardinality(Places(last'.log, "DndFocus::drop")) = 1
                     /\ Cardinality(Places(last'.log, "DndFocus::leave")) = 1
                     /\ \A i \in Places(last'.log, "DndFocus::drop"),
                           j \in Places(last'.log, "DndFocus::leave") : i < j
                ELSE /\ Places(last'.log, "DndFocus::drop") = {}
                     /\ Places(last'.log, "DndFocus::leave") = {}]_vars

(* A motion event has moved the focus from surface a to surface b: a got   *)
(* leave, then b got enter                                                 *)
C37_Witness ==
    /\ last.op = "motion"
    /\ Len(last.log) >= 2
    /\ last.log[1].call = "DndFocus::leave"
    /\ Unwrap(last.log[1].target).surface = "a"
    /\ last.log[Len(last.log)].call = "DndFocus::enter"
    /\ Unwrap(last.log[Len(last.log)].target).surface = "b"

(* A grab has ended over surface b: b got drop, then leave *)
C37_EndWitness ==
    /\ UnsetCalled
    /\ IsSome(last.current_focus)
    /\ Unwrap(last.current_focus).surface = "b"
    /\ last.log[1].call = "DndFocus::drop"
    /\ last.log[Len(last.log)].call = "DndFocus::leave"

----------------------------------------------------------------------------
(* C38: while a grab lasts, offer_data is present only if current_focus    *)
(* is; a motion event that makes the entered target leave disables the     *)
(* offer of that target right after the leave and clears it (an offer      *)
(* that is there afterwards is the new one of a target entered in the      *)
(* same event); and with a data source whose metadata has an empty list    *)
(* of mime types no target is ever entered.                                *)
C38_OfferOnlyWithFocus ==
    [][IsSome(grab')
       => /\ IsSome(Unwrap(grab').offer_data)
             => IsSome(Unwrap(grab').current_focus)
          /\ Unwrap(grab').data_source.metadata = "empty"
             => /\ IsNone(Unwrap(grab').current_focus)
                /\ Places(last'.log, "DndFocus::enter") = {}
          /\ last'.op = "motion" /\ Places(last'.log, "DndFocus::leave") # {}
             => /\ IsSome(Unwrap(grab).offer_data)
                   => /\ Len(last'.log) >= 2
                      /\ last'.log[2] = Call("OfferData::disable", None, None)
                /\ IsSome(Unwrap(grab').offer_data)
                   => /\ Places(last'.log, "DndFocus::enter") # {}
                      /\ Unwrap(grab').offer_data = Some(NewOffer)]_vars

(* A motion event with no focus has made the entered target leave: its     *)
(* offer, which the client had accepted, was disabled and is gone          *)
C38_Witness ==
    /\ last.op = "motion"
    /\ last.focus = None
    /\ IsSome(last.before.offer_data)
    /\ Unwrap(last.before.offer_data).validated
    /\ Len(last.log) = 2
    /\ last.log[1].call = "DndFocus::leave"
    /\ last.log[2].call = "OfferData::disable"
    /\ IsSome(grab)
    /\ IsNone(Unwrap(grab).offer_data)
    /\ IsNone(Unwrap(grab).current_focus)

(* A motion event over a live surface, with a source whose list of mime    *)
(* types is empty, has entered nothing                                     *)
C38_EmptyMimeWitness ==
    /\ last.op = "motion"
    /\ IsSome(last.focus) /\ last.alive
    /\ IsSome(grab)
    /\ Unwrap(grab).data_source.metadata = "empty"
    /\ last.log = <<>>
    /\ IsNone(Unwrap(grab).current_focus)

----------------------------------------------------------------------------
(* Claims on the KDE blur protocol (SpecKdeBlur) *)

(* C39: the handler's enable_blur(s) is called exactly by a Commit request *)
(* on a blur object, with the surface s the object was created for, and    *)
(* disable_blur(s) exactly by the manager's Unset request for s.  Create   *)
(* stores the surface in the new object and calls neither, and so do       *)
(* SetRegion, Release and every other request; no request changes the      *)
(* surface of an object.                                                   *)
C39_EnableOnCommitDisableOnUnset ==
    [][/\ last'.op = "OrgKdeKwinBlurManager::request"
          => /\ last'.log =
                   IF last'.request.kind = "Unset"
                   THEN <<Call("disable_blur", last'.request.surface, None)>>
                   ELSE <<>>
             /\ last'.request.kind = "Create"
                => /\ Len(kde_blur') = Len(kde_blur) + 1
                   /\ kde_blur'[Len(kde_blur')].surface
                         = last'.request.surface
       /\ last'.op = "OrgKdeKwinBlur::request"
          => last'.log =
                IF last'.request = "Commit"
                THEN <<Call("enable_blur", kde_blur[last'.id].surface, None)>>
                ELSE <<>>
       /\ \A id \in DOMAIN kde_blur :
             /\ id \in DOMAIN kde_blur'
             /\ kde_blur'[id].surface = kde_blur[id].surface]_vars

(* With objects for both surfaces, a Commit on the object created for s2   *)
(* has enabled blur on s2                                                  *)
C39_Witness ==
    /\ last.op = "OrgKdeKwinBlur::request"
    /\ last.request = "Commit"
    /\ \E i \in DOMAIN kde_blur : kde_blur[i].surface = "s1"
    /\ kde_blur[last.id].surface = "s2"
    /\ last.log = <<Call("enable_blur", "s2", None)>>

(* A blur object has been released: the handler was not called *)
C39_ReleaseWitness ==
    /\ last.op = "OrgKdeKwinBlur::request"
    /\ last.request = "Release"
    /\ ~kde_blur[last.id].alive
    /\ last.log = <<>>

----------------------------------------------------------------------------
(* Claims on the tab indicator (SpecTabs) *)

TabIndicatorCalled ==
    last.op \in {"TabIndicator::update_render_elements", "TabIndicator::hit"}

(* C40: update_render_elements (enabled, not off) and hit complete for     *)
(* every number of tabs, 0 included, and the count - 1 of tab_rects        *)
(* neither panics nor wraps.                                               *)
C40_NoUnderflow ==
    TabIndicatorCalled => last.result = "ok" /\ ~last.wrapped

(* With one tab or more the calls complete and nothing wraps: hit has      *)
(* found the second of three tabs                                          *)
C40_ThreeTabs ==
    /\ last.op = "TabIndicator::hit"
    /\ last.tab_count = 3
    /\ Len(last.rects) = 3
    /\ last.ret = Some(1)
    /\ last.result = "ok" /\ ~last.wrapped

(* update_render_elements with no tab has panicked in a build that checks  *)
(* overflow                                                                *)
C40_PanicWithNoTab ==
    /\ last.op = "TabIndicator::update_render_elements"
    /\ last.tab_count = 0 /\ last.enabled /\ ~last.off
    /\ last.overflow_checks
    /\ last.result = "panic" /\ panicked

(* hit with no tab has wrapped count - 1 in a build that does not check    *)
(* overflow, and has found no tab                                          *)
C40_WrapWithNoTab ==
    /\ last.op = "TabIndicator::hit"
    /\ last.tab_count = 0 /\ ~last.off
    /\ ~last.overflow_checks
    /\ last.result = "ok" /\ last.wrapped
    /\ last.ret = None

====
